---- MODULE Spec2Model ----
(***************************************************************************)
(* Plan (B)ackup Recovery: the storage-reconstruction engine.              *)
(*                                                                         *)
(* The module models, from planb/recover.py, planb/lvm.py, planb/backup.py *)
(* and planb/parted.py:                                                    *)
(*   - Recover.cmp_disk_layout        (SpecLayout)                         *)
(*   - Recover.cmp_disks / map_disk   (SpecCmp, SpecMap)                   *)
(*   - Recover.main, full restore     (SpecMain)                           *)
(*   - RecoveryLVM.lvm_check          (SpecLvm)                            *)
(*   - Backup.get_bk_vgs              (SpecBk)                             *)
(*                                                                         *)
(* Python strings on which the code does character work (replace, regex    *)
(* search, isnumeric, split) are sequences of one-character strings, with  *)
(* the directory part of a device path as a single leading element.        *)
(* Python dicts, which iterate in insertion order, are sequences of        *)
(* [k, v] entries.                                                         *)
(***************************************************************************)
EXTENDS Integers, Sequences, FiniteSets, TLC

VARIABLES
    \* ---- Recover.cmp_disk_layout (SpecLayout)
    lay_src,        \* the disk as probed at backup time (int partition keys)
    lay_bk,         \* self.bk_disks[d1]: lay_src after json.dump / json.load
    lay_facts,      \* facts.disks on the recovery host, restricted to d2
    lay_ret         \* the truthiness of the return value, "none" before the call

layVars == <<lay_src, lay_bk, lay_facts, lay_ret>>

VARIABLES
    \* ---- the captured facts of Recover (SpecMap, SpecCmp)
    bk_disks,           \* self.bk_disks: disk path -> [id_serial, size]
    tmp_mapped_disks,   \* self.tmp_mapped_disks
    bk_mnts,            \* self.bk_mnts: mount point -> [path, parent, type]
    lst_mapped_mps,     \* self.lst_mapped_mps
    md_info,            \* self.bk_misc['md_info']: array name -> devs
    luks,               \* self.bk_misc['luks']: container path -> descriptor
    PVS,                \* self.bk_lvm['PVS']
    luks_files,         \* the files /facts/luks/<stem>.backup: [stem, hdr]
    \* ---- history of the map_disk calls
    orig,               \* the facts before the first map_disk call
    pre,                \* the facts before the latest map_disk call
    map_calls,          \* the (o_disk, n_disk) arguments, in call order
    map_err             \* "" or the exception that ended the latest call

factVars == <<bk_disks, tmp_mapped_disks, bk_mnts, lst_mapped_mps, md_info, luks,
              PVS, luks_files>>

mapVars == <<factVars, orig, pre, map_calls, map_err>>

VARIABLES
    \* ---- Recover.cmp_disks (SpecCmp)
    facts_disks_live,       \* self.facts.disks: the disks of the recovery host
    facts_disks,            \* the local copy facts_disks, consumed by the sweep
    cmp_bk,                 \* the local copy bk_disks the sweep iterates over
    cmp_pc,                 \* the loop cmp_disks is in, or how it ended
    cmp_i,                  \* the index of the next entry of that loop
    matching_size_disks,    \* captured disk -> its size candidates
    possible_larger_disks,  \* captured disk -> its larger candidates
    cmp_log                 \* history: per swept disk, what the sweep saw

cmpVars == <<facts_disks_live, facts_disks, cmp_bk, cmp_pc, cmp_i, matching_size_disks,
             possible_larger_disks, cmp_log>>

VARIABLES
    \* ---- RecoveryLVM (SpecLvm)
    bk_vgs,     \* self.bk_misc['bk_vgs']: the volume groups to check
    bk_lvs,     \* self.bk_lvm['LVS']: [vg_name, lv_name, lv_size]
    host_pvs,   \* what pvs reports on the recovery host: [pv_name, vg_name]
    host_lvs,   \* what lvs reports on the recovery host
    rc_lvm,     \* self.rc_lvm: the report RecoveryLVM.__init__ took
    rc_vgs,     \* the local list rc_vgs of lvm_check
    lvm_pc,     \* the step lvm_check is at, or how it ended
    lvm_i       \* the index of the next entry of its loop

lvmVars == <<bk_vgs, bk_lvs, host_pvs, host_lvs, rc_lvm, rc_vgs, lvm_pc, lvm_i>>

VARIABLES
    \* ---- the external commands issued so far, in call order: [op, dev, tag]
    cmds

VARIABLES
    \* ---- Backup.get_bk_vgs and Backup.cleanup_disks (SpecBk)
    facts_mnts,         \* self.facts.mnts: mount point -> [type, path, parent, vg, md_devname]
    facts_pvs,          \* self.facts.lvm['PVS']: [vg_name, pv_name, parent, d_type, md_dev]
    bk_facts_disks,     \* the keys of self.facts.disks of Backup
    bk_exclude_vgs,     \* self.cfg.bk_exclude_vgs
    bk_exclude_disks,   \* self.cfg.bk_exclude_disks
    get_bk_vgs,         \* the list get_bk_vgs returned, None before
    bk_pc               \* "call" before the call, then how it ended

bkVars == <<facts_mnts, facts_pvs, bk_facts_disks, bk_exclude_vgs, bk_exclude_disks, get_bk_vgs, bk_pc>>

VARIABLES
    \* ---- Recover.main (SpecMain)
    main_pc,        \* the stage main is in, or how it ended
    main_i,         \* the index of the next entry of the loop of that stage
    rc_part_disks   \* the local list rc_part_disks

mainVars == <<main_pc, main_i, rc_part_disks>>

VARIABLES
    \* ---- Backup.main (SpecBackup)
    opts,           \* self.opts: [check_facts, backup_only, mkrescue, keep]
    lvm_installed,  \* self.facts.lvm_installed
    facts_luks,     \* the number of containers of self.facts.luks
    ref,            \* /var/lib/pbr/facts: file -> content
    ref0,           \* the reference before the run
    tmp_facts,      \* tmp_facts_dir: file -> content
    tmp_dir,        \* the scratch directory: "none", "exists" or "removed"
    mounted,        \* self.mounted
    bk_location,    \* "never mounted", "mounted" or "unmounted"
    matched,        \* self.matched
    done,           \* the steps performed, of "facts", "compare", "rescue", "backup"
    raised,         \* the step whose exception main caught, "" when none
    bm_i,           \* the index of the next container of the loop of line 358
    exit_status,    \* the exit status, -1 while running
    bm_pc           \* the step main is at

bmVars == <<opts, lvm_installed, facts_luks, ref, ref0, tmp_facts, tmp_dir, mounted, bk_location,
            matched, done, raised, bm_i, exit_status, bm_pc>>

VARIABLES
    \* ---- Recover.main, its termination (SpecRecover)
    rc_opts,        \* opts.restore_only, opts.backup_archive, cfg.bk_location_type,
                    \* cfg.rc_post_script
    bk_mounted,     \* self.bk_mounted
    rc_bk_mount,    \* the backup location: "never mounted", "mounted" or "unmounted"
    rc_cleanups,    \* how many times cleanup ran
    rc_failed,      \* the step that raised, "" when none
    rc_exit,        \* the exit status, -1 while running
    rc_i,           \* the index of the next step of the try block
    rc_pc           \* the statement main is at

rcVars == <<rc_opts, bk_mounted, rc_bk_mount, rc_cleanups, rc_failed, rc_exit, rc_i, rc_pc>>

VARIABLES
    \* ---- Parted.recreate_disk (SpecParted)
    pt_bdisk,       \* bdisk: the captured record of the disk, as loaded from disks.json
    pt_i,           \* the index of the next entry of bdisk.items()
    pt_pc           \* the statement recreate_disk is at, or how it ended

ptVars == <<pt_bdisk, pt_i, pt_pc>>

VARIABLES
    \* ---- md_check (SpecMd)
    md_host,        \* the arrays running on the host: name -> members
    facts_md_info,  \* facts_md_info: what get_md_info returned, name -> members
    md_work,        \* what is left of the loop md_check is in
    md_log,         \* the mdadm commands run: [op, name, dev, rc]
    md_pc           \* the statement md_check is at, or how it ended

mdVars == <<md_host, facts_md_info, md_work, md_log, md_pc>>

VARIABLES
    \* ---- deactivate_vgs (SpecDeactivate)
    dv_rc,          \* ret.returncode of vgchange -an
    dv_stderr,      \* ret.stderr of vgchange -an, as its lines
    dv_out          \* "none" before the call, then "returned", "warned" or "RunCMDError"

dvVars == <<dv_rc, dv_stderr, dv_out>>

VARIABLES
    \* ---- get_lvm_report, the pvs pass (SpecReport)
    pv_out,         \* the rows of the pvs output, as json.loads returned them
    pv_report,      \* report: the same list while the loop updates it
    pv_i,           \* i
    pv_x,           \* the index of the row x the loop is at
    pv_pc           \* the statement get_lvm_report is at, or how it ended

pvVars == <<pv_out, pv_report, pv_i, pv_x, pv_pc>>

vars == <<layVars, mapVars, cmpVars, lvmVars, cmds, bkVars, mainVars, bmVars, rcVars, ptVars,
          mdVars, dvVars, pvVars>>

----------------------------------------------------------------------------
\* Bounds of the model.
MaxPart == 2
MaxStart == 2

----------------------------------------------------------------------------
\* Strings as character sequences.

Digit == {"0", "1", "2", "3", "4", "5", "6", "7", "8", "9"}

Lower == {"a", "b", "c", "d", "e", "f", "g", "h", "i", "j", "k", "l", "m",
          "n", "o", "p", "q", "r", "s", "t", "u", "v", "w", "x", "y", "z"}

DigitChar == <<"0", "1", "2", "3", "4", "5", "6", "7", "8", "9">>

\* str(n) for a natural number, as json.dump writes an int dict key.
RECURSIVE ToStr(_)
ToStr(n) ==
    IF n < 10 THEN <<DigitChar[n + 1]>>
    ELSE ToStr(n \div 10) \o <<DigitChar[(n % 10) + 1]>>

DigitVal(c) == CHOOSE d \in 0..9 : DigitChar[d + 1] = c

\* int(s) for a string of decimal digits.
RECURSIVE ToInt(_)
ToInt(s) ==
    IF Len(s) = 0 THEN 0
    ELSE 10 * ToInt(SubSeq(s, 1, Len(s) - 1)) + DigitVal(s[Len(s)])

\* str.isnumeric(): at least one character and all of them digits.
IsNumeric(s) == Len(s) > 0 /\ \A i \in 1..Len(s) : s[i] \in Digit

----------------------------------------------------------------------------
\* Python dicts: insertion-ordered sequences of entries [k |-> key, v |-> value].

Keys(d) == [i \in 1..Len(d) |-> d[i].k]

KeySet(d) == {d[i].k : i \in 1..Len(d)}

Has(d, key) == key \in KeySet(d)

Get(d, key) == d[CHOOSE i \in 1..Len(d) : d[i].k = key].v

\* del d[key] / d.pop(key)
Del(d, key) == SelectSeq(d, LAMBDA e : e.k # key)

\* d[key] = val / d.update({key: val}): an existing key keeps its position.
Put(d, key, val) ==
    IF Has(d, key)
    THEN [i \in 1..Len(d) |-> IF d[i].k = key THEN [k |-> key, v |-> val] ELSE d[i]]
    ELSE Append(d, [k |-> key, v |-> val])

----------------------------------------------------------------------------
\* Keys of a disk record that the comparator iterates over.
K_size == <<"s", "i", "z", "e">>
K_type == <<"t", "y", "p", "e">>
K_fs == <<"f", "s">>
K_fs_type == <<"f", "s", "_", "t", "y", "p", "e">>

\* A probed disk (get_part_layout): a partition table type or none, a
\* filesystem type when it has no table, and its partitions by number. A
\* partition carries "start" only when its device node is a block device.
PartRecords == {<<>>} \cup {[f \in {"start"} |-> s] : s \in 1..MaxStart}

PartMaps ==
    UNION {[ns -> PartRecords] : ns \in SUBSET (1..MaxPart)}

ProbedDisks ==
    {[labelled |-> TRUE, fs_type |-> "", parts |-> pm] : pm \in PartMaps}
    \cup {[labelled |-> FALSE, fs_type |-> f, parts |-> <<>>] : f \in {"", "xfs"}}

\* The entries of parts in ascending partition number, keyed by str(number).
RECURSIVE PartEntries(_, _)
PartEntries(pm, n) ==
    IF \A k \in DOMAIN pm : k < n THEN <<>>
    ELSE (IF n \in DOMAIN pm THEN <<[k |-> ToStr(n), v |-> pm[n]]>> ELSE <<>>)
         \o PartEntries(pm, n + 1)

\* disks.json as Recover.__init__ loads it: json.dump turns every int key
\* into its decimal string; the values are unchanged.
JsonDisk(d) ==
    <<[k |-> K_size, v |-> <<>>]>>
    \o (IF d.labelled THEN <<[k |-> K_type, v |-> <<>>]>>
        ELSE <<[k |-> K_fs_type, v |-> <<>>]>>)
    \o PartEntries(d.parts, 1)

\* A comparison of start sectors that never finds a difference.
StartDiffers_never(b, l) == FALSE

\* Line 261: the start sectors of a captured and a live partition differ.
StartDiffers(b, l) == b["start"] # l["start"]

\* The iteration of cmp_disk_layout over self.bk_disks[d1].items(), from
\* entry i on, with the counters match and partitioned. live is
\* facts.disks restricted to d2: a sequence with the disk, or empty when d2
\* is not a key. The result is the truthiness of the returned value.
RECURSIVE CmpLayoutFrom(_, _, _, _, _)
CmpLayoutFrom(bk, live, i, match, partitioned) ==
    IF i > Len(bk)
    THEN IF partitioned = 0
         THEN Has(bk, K_fs) /\ Get(bk, K_fs) # ""
         ELSE match > 0
    ELSE IF IsNumeric(bk[i].k)
         THEN LET n == ToInt(bk[i].k)
                  keyError ==
                      \/ "start" \notin DOMAIN bk[i].v
                      \/ Len(live) = 0
                      \/ n \notin DOMAIN live[1].parts
                      \/ "start" \notin DOMAIN live[1].parts[n]
              IN  IF keyError THEN FALSE
                  ELSE IF StartDiffers(bk[i].v, live[1].parts[n]) THEN FALSE
                  ELSE CmpLayoutFrom(bk, live, i + 1, match + 1, partitioned + 1)
         ELSE CmpLayoutFrom(bk, live, i + 1, match, partitioned)

cmp_disk_layout(bk, live) == CmpLayoutFrom(bk, live, 1, 0, 0)

LayInit ==
    /\ lay_src \in ProbedDisks
    /\ lay_bk = JsonDisk(lay_src)
    /\ lay_facts \in {<<>>} \cup {<<d>> : d \in ProbedDisks}
    /\ lay_ret = "none"

\* One call of cmp_disk_layout(d1, d2, facts).
CmpDiskLayout ==
    /\ lay_ret = "none"
    /\ lay_ret' = IF cmp_disk_layout(lay_bk, lay_facts) THEN "true" ELSE "false"
    /\ UNCHANGED <<lay_src, lay_bk, lay_facts>>
    /\ UNCHANGED <<pvVars, mapVars, cmpVars, lvmVars, cmds, bkVars, mainVars, bmVars, rcVars, ptVars, mdVars, dvVars>>

LayNext == CmpDiskLayout

\* Captured partition k is on the live disk with the same start sector.
LayPartMatches(k) ==
    /\ Len(lay_facts) = 1
    /\ k \in DOMAIN lay_facts[1].parts
    /\ "start" \in DOMAIN lay_src.parts[k]
    /\ "start" \in DOMAIN lay_facts[1].parts[k]
    /\ lay_src.parts[k]["start"] = lay_facts[1].parts[k]["start"]

\* C6: for a captured disk with at least one partition, cmp_disk_layout
\* returns true if and only if every captured partition number is on the
\* live disk with a start sector identical to the captured one.
C6_LayoutIffStartsMatch ==
    (lay_ret \in {"true", "false"} /\ DOMAIN lay_src.parts # {})
        => (lay_ret = "true" <=> \A k \in DOMAIN lay_src.parts : LayPartMatches(k))

\* C6 witness: a captured disk with two partitions was compared and matched.
C6_Witness ==
    /\ lay_ret = "true"
    /\ Cardinality(DOMAIN lay_src.parts) >= 2

\* A captured disk with two partitions, the second of which differs.
C6_WitnessMismatch ==
    /\ lay_ret = "false"
    /\ Cardinality(DOMAIN lay_src.parts) >= 2
    /\ LayPartMatches(1)
    /\ ~LayPartMatches(2)

\* The live disk carries the filesystem the captured disk had.
LaySameFs ==
    /\ Len(lay_facts) = 1
    /\ ~lay_facts[1].labelled
    /\ lay_facts[1].fs_type = lay_src.fs_type

\* C21: for a captured disk with no partitions and a filesystem,
\* cmp_disk_layout returns true if and only if the live disk carries the
\* same filesystem.
C21_UnpartitionedIffSameFs ==
    (lay_ret \in {"true", "false"} /\ ~lay_src.labelled /\ lay_src.fs_type # "")
        => (lay_ret = "true" <=> LaySameFs)

LayOff ==
    /\ lay_src = [labelled |-> FALSE, fs_type |-> "", parts |-> <<>>]
    /\ lay_bk = <<>>
    /\ lay_facts = <<>>
    /\ lay_ret = "off"

----------------------------------------------------------------------------
\* More string operations of the rewriter.

\* The value None; no string of one-character elements equals it.
None == <<"None">>

\* Python truthiness of a string-or-None value.
Truthy(s) == s # None /\ s # <<>>

\* s[-1].isnumeric()
EndsNumeric(s) == Len(s) > 0 /\ s[Len(s)] \in Digit

\* str.replace(old, new): every non-overlapping occurrence, left to right.
RECURSIVE Replace(_, _, _)
Replace(s, old, new) ==
    IF Len(s) < Len(old) THEN s
    ELSE IF SubSeq(s, 1, Len(old)) = old
         THEN new \o Replace(SubSeq(s, Len(old) + 1, Len(s)), old, new)
         ELSE <<s[1]>> \o Replace(Tail(s), old, new)

\* The directory part of a device path is one element of the sequence,
\* "/dev/" or "/dev/mapper/"; every other element is one character.
DirTokens == {"/dev/", "/dev/mapper/"}

\* re.search("/dev/mapper", s)
IsMapper(s) == \E i \in 1..Len(s) : s[i] = "/dev/mapper/"

\* s.split('/')[-1]
RECURSIVE Basename(_)
Basename(s) ==
    IF \E i \in 1..Len(s) : s[i] \in DirTokens
    THEN Basename(SubSeq(s, (CHOOSE i \in 1..Len(s) : s[i] \in DirTokens
                                 /\ \A j \in 1..(i - 1) : s[j] \notin DirTokens) + 1,
                         Len(s)))
    ELSE s

RECURSIVE TakeWhile(_, _)
TakeWhile(s, cls) ==
    IF Len(s) = 0 \/ s[1] \notin cls THEN <<>>
    ELSE <<s[1]>> \o TakeWhile(Tail(s), cls)

RECURSIVE DropUntil(_, _)
DropUntil(s, cls) ==
    IF Len(s) = 0 \/ s[1] \in cls THEN s
    ELSE DropUntil(Tail(s), cls)

\* re.search("([a-z]+)", s).group() and re.search("([0-9]+)", s).group():
\* the first maximal run; the empty result stands for "no match".
AlphaRun(s) == TakeWhile(DropUntil(s, Lower), Lower)

DigitRun(s) == TakeWhile(DropUntil(s, Digit), Digit)

\* Device paths.
Dev == <<"/dev/">>
SDA == Dev \o <<"s", "d", "a">>
SDB == Dev \o <<"s", "d", "b">>
SDC == Dev \o <<"s", "d", "c">>
NVME == Dev \o <<"n", "v", "m", "e", "0", "n", "1">>
MPA == <<"/dev/mapper/", "m", "p", "a">>

\* The kernel's name of partition num of a disk (get_part_layout).
PartPath(disk, num) ==
    IF EndsNumeric(disk) THEN disk \o <<"p">> \o ToStr(num) ELSE disk \o ToStr(num)

\* "part" in info['type']
HasPart(type) == type \in {"part", "part-mpath", "part-raid"}

----------------------------------------------------------------------------
\* Recover.map_disk. The facts travel through the operators as one record
\*   [disks, tmp, mnts, mapped, md, luks, pvs, files, err]
\* whose fields are the variables of factVars, and err the exception, if any.

\* Lines 382-384: move the disk entry to tmp_mapped_disks under the new name.
MapDisks(f, o, n) ==
    IF Has(f.disks, o)
    THEN [f EXCEPT !.tmp = Put(f.tmp, n, Get(f.disks, o)), !.disks = Del(f.disks, o)]
    ELSE f

\* Lines 406-412: the rewritten path of a mount of the old disk.
NewMntPath(info, o, n) ==
    IF EndsNumeric(n) /\ HasPart(info.type)
    THEN Replace(info.path, o, n \o <<"p">>)
    ELSE Replace(info.path, o, n)

\* Lines 394-404: the disk a mount is compared by.
MntDisk(info) ==
    IF info.type \in {"part", "part-mpath"} THEN info.parent
    ELSE IF info.type \in {"mpath", "disk"} THEN info.path
    ELSE None

\* Lines 387-418: the loop over self.bk_mnts.items(), from entry i on. The
\* path is assigned before the parent, so a parent of None leaves the path
\* rewritten and ends the call with AttributeError.
RECURSIVE MapMnts(_, _, _, _)
MapMnts(f, o, n, i) ==
    IF i > Len(f.mnts) THEN f
    ELSE LET mnt == f.mnts[i].k
             info == f.mnts[i].v
         IN  IF \E x \in 1..Len(f.mapped) : f.mapped[x] = mnt
             THEN MapMnts(f, o, n, i + 1)
             ELSE IF info.type \in {"lvm", "raid"}
             THEN MapMnts(f, o, n, i + 1)
             ELSE IF o # MntDisk(info)
             THEN MapMnts(f, o, n, i + 1)
             ELSE IF info.parent = None
             THEN [f EXCEPT !.mnts = Put(f.mnts, mnt,
                                         [info EXCEPT !.path = NewMntPath(info, o, n)]),
                            !.err = "AttributeError"]
             ELSE MapMnts([f EXCEPT !.mnts = Put(f.mnts, mnt,
                                  [info EXCEPT !.path = NewMntPath(info, o, n),
                                               !.parent = Replace(info.parent, o, n)]),
                                    !.mapped = Append(f.mapped, mnt)],
                          o, n, i + 1)

\* Lines 426-428: the loop over the members of one array as they were when
\* the loop started; every member whose alphabetic run is the old basename
\* rewrites the whole current list.
RECURSIVE MapMdDevs(_, _, _, _, _)
MapMdDevs(old, cur, od, nd, j) ==
    IF j > Len(old) THEN cur
    ELSE IF od = AlphaRun(old[j])
         THEN MapMdDevs(old, [x \in 1..Len(cur) |-> Replace(cur[x], od, nd)], od, nd, j + 1)
         ELSE MapMdDevs(old, cur, od, nd, j + 1)

\* Lines 421-428.
MapMd(f, o, n) ==
    [f EXCEPT !.md = [a \in 1..Len(f.md) |->
        [k |-> f.md[a].k,
         v |-> MapMdDevs(f.md[a].v, f.md[a].v, Basename(o), Basename(n), 1)]]]

\* Lines 434-445: one row of self.bk_lvm['PVS'].
MapPv(pv, o, n) ==
    IF pv.d_type \in {"disk", "mpath"}
    THEN [pv EXCEPT !.pv_name = Replace(pv.pv_name, o, n),
                    !.parent = IF Truthy(pv.parent) THEN Replace(pv.parent, o, n)
                               ELSE pv.parent]
    ELSE IF pv.d_type \in {"part", "part-mpath", "part-raid"} /\ o = pv.parent
    THEN [pv EXCEPT !.pv_name = IF EndsNumeric(n)
                                THEN Replace(pv.pv_name, o, n \o <<"p">>)
                                ELSE Replace(pv.pv_name, o, n),
                    !.parent = Replace(pv.parent, o, n)]
    ELSE pv

\* Lines 431-446.
MapPvs(f, o, n) ==
    [f EXCEPT !.pvs = [i \in 1..Len(f.pvs) |-> MapPv(f.pvs[i], o, n)]]

\* Lines 451-457: the index of the first LUKS key whose basename's
\* alphabetic run is the old basename, 0 when there is none.
LuksHit(f, o) ==
    LET hits == {i \in 1..Len(f.luks) :
                    Basename(o) = AlphaRun(Basename(f.luks[i].k))}
    IN  IF hits = {} THEN 0 ELSE CHOOSE i \in hits : \A j \in hits : i <= j

\* Lines 449-463: rekey the first hit and move its header file.
MapLuks(f, o, n) ==
    LET h == LuksHit(f, o) IN
    IF h = 0 THEN f
    ELSE LET dev == f.luks[h].k
             p == DigitRun(Basename(dev))
             stem == Basename(o) \o p
             moved == {x \in f.files : x.stem = stem}
         IN  IF p = <<>> THEN [f EXCEPT !.err = "AttributeError"]
             ELSE [f EXCEPT
                    !.luks = Put(Del(f.luks, dev), n \o p, f.luks[h].v),
                    !.files = IF moved = {} THEN f.files
                              ELSE {x \in f.files : x.stem \notin {stem, Basename(n) \o p}}
                                   \cup {[stem |-> Basename(n) \o p, hdr |-> x.hdr] : x \in moved}]

\* Recover.map_disk(o_disk, n_disk).
map_disk(f, o, n) ==
    LET f1 == MapMnts(MapDisks(f, o, n), o, n, 1) IN
    IF f1.err # "" THEN f1
    ELSE LET f2 == MapPvs(MapMd(f1, o, n), o, n) IN MapLuks(f2, o, n)

----------------------------------------------------------------------------
\* SpecMap: a captured fact set and a sequence of map_disk calls.

MaxCalls == 2

MapNames == <<SDA, SDB, NVME>>

\* What a captured disk carries: nothing, a mounted partition 1, a
\* filesystem on the whole disk, partition 1 as a member of the array md0,
\* partition 2 as a PV, the whole disk as a PV, a LUKS partition 3, or the
\* LUKS partitions 3 and 4.
Roles == {"none", "part", "disk", "md", "pv", "pvdisk", "luks", "luks2"}

MountPoints == <<"/boot", "/home", "/var">>

RECURSIVE RoleDisks(_, _)
RoleDisks(role, i) ==
    IF i > Len(MapNames) THEN <<>>
    ELSE (IF role[i] # "none"
          THEN <<[k |-> MapNames[i], v |-> [id_serial |-> "", size |-> 1]]>>
          ELSE <<>>) \o RoleDisks(role, i + 1)

RECURSIVE RoleMnts(_, _)
RoleMnts(role, i) ==
    IF i > Len(MapNames) THEN <<>>
    ELSE (IF role[i] = "part"
          THEN <<[k |-> MountPoints[i],
                  v |-> [path |-> PartPath(MapNames[i], 1), parent |-> MapNames[i],
                         type |-> "part"]]>>
          ELSE IF role[i] = "disk"
          THEN <<[k |-> MountPoints[i],
                  v |-> [path |-> MapNames[i], parent |-> None, type |-> "disk"]]>>
          ELSE <<>>) \o RoleMnts(role, i + 1)

RECURSIVE RoleMdDevs(_, _)
RoleMdDevs(role, i) ==
    IF i > Len(MapNames) THEN <<>>
    ELSE (IF role[i] = "md" THEN <<Basename(PartPath(MapNames[i], 1))>> ELSE <<>>)
         \o RoleMdDevs(role, i + 1)

RoleMd(role) ==
    IF RoleMdDevs(role, 1) = <<>> THEN <<>>
    ELSE <<[k |-> "md0", v |-> RoleMdDevs(role, 1)]>>

RECURSIVE RolePvs(_, _)
RolePvs(role, i) ==
    IF i > Len(MapNames) THEN <<>>
    ELSE (IF role[i] = "pv"
          THEN <<[pv_name |-> PartPath(MapNames[i], 2), parent |-> MapNames[i],
                  d_type |-> "part", vg_name |-> "vg0"]>>
          ELSE IF role[i] = "pvdisk"
          THEN <<[pv_name |-> MapNames[i], parent |-> None,
                  d_type |-> "disk", vg_name |-> "vg0"]>>
          ELSE <<>>) \o RolePvs(role, i + 1)

RECURSIVE RoleLuks(_, _)
RoleLuks(role, i) ==
    IF i > Len(MapNames) THEN <<>>
    ELSE (IF role[i] \in {"luks", "luks2"}
          THEN <<[k |-> PartPath(MapNames[i], 3), v |-> [type |-> "part", uuid |-> i]]>>
          ELSE <<>>)
         \o (IF role[i] = "luks2"
             THEN <<[k |-> PartPath(MapNames[i], 4),
                     v |-> [type |-> "part", uuid |-> Len(MapNames) + i]]>>
             ELSE <<>>)
         \o RoleLuks(role, i + 1)

\* The header dumps of Backup.dump_facts: <basename of the container>.backup.
RoleFiles(role) ==
    {[stem |-> Basename(RoleLuks(role, 1)[i].k), hdr |-> RoleLuks(role, 1)[i].v.uuid] :
        i \in 1..Len(RoleLuks(role, 1))}

RoleFacts(role) ==
    [disks |-> RoleDisks(role, 1), tmp |-> <<>>, mnts |-> RoleMnts(role, 1),
     mapped |-> <<>>, md |-> RoleMd(role), luks |-> RoleLuks(role, 1),
     pvs |-> RolePvs(role, 1), files |-> RoleFiles(role), err |-> ""]

\* The facts as one record, and back.
Facts ==
    [disks |-> bk_disks, tmp |-> tmp_mapped_disks, mnts |-> bk_mnts,
     mapped |-> lst_mapped_mps, md |-> md_info, luks |-> luks, pvs |-> PVS,
     files |-> luks_files, err |-> ""]

\* The references a rename rewrites, kept as history.
Refs(f) == [mnts |-> f.mnts, md |-> f.md, luks |-> f.luks, pvs |-> f.pvs]

SetFacts(f) ==
    /\ bk_disks' = f.disks
    /\ tmp_mapped_disks' = f.tmp
    /\ bk_mnts' = f.mnts
    /\ lst_mapped_mps' = f.mapped
    /\ md_info' = f.md
    /\ luks' = f.luks
    /\ PVS' = f.pvs
    /\ luks_files' = f.files

MapInit ==
    \E role \in [1..Len(MapNames) -> Roles] :
        LET f == RoleFacts(role) IN
        /\ bk_disks = f.disks
        /\ tmp_mapped_disks = f.tmp
        /\ bk_mnts = f.mnts
        /\ lst_mapped_mps = f.mapped
        /\ md_info = f.md
        /\ luks = f.luks
        /\ PVS = f.pvs
        /\ luks_files = f.files
        /\ orig = Refs(f)
        /\ pre = Refs(f)
        /\ map_calls = <<>>
        /\ map_err = ""

\* One call Recover.map_disk(o, n).
MapDiskCall ==
    /\ Len(map_calls) < MaxCalls
    /\ map_err = ""
    /\ \E i, j \in 1..Len(MapNames) :
        /\ i # j
        /\ LET f == map_disk(Facts, MapNames[i], MapNames[j]) IN
            /\ SetFacts(f)
            /\ map_err' = f.err
        /\ map_calls' = Append(map_calls, <<MapNames[i], MapNames[j]>>)
    /\ pre' = Refs(Facts)
    /\ orig' = orig
    /\ UNCHANGED <<pvVars, layVars, cmpVars, lvmVars, cmds, bkVars, mainVars, bmVars, rcVars, ptVars, mdVars, dvVars>>

MapNext == MapDiskCall

\* The trailing run of digits of a path: the partition number.
RECURSIVE TrailingDigits(_)
TrailingDigits(s) ==
    IF Len(s) = 0 \/ s[Len(s)] \notin Digit THEN <<>>
    ELSE TrailingDigits(SubSeq(s, 1, Len(s) - 1)) \o <<s[Len(s)]>>

\* (path, parent) of every mount.
MntRefs(mnts) == [i \in 1..Len(mnts) |-> <<mnts[i].k, mnts[i].v.path, mnts[i].v.parent>>]

\* (pv_name, parent) of every PV row.
PvRefs(pvs) == [i \in 1..Len(pvs) |-> <<pvs[i].pv_name, pvs[i].parent>>]

\* The calls so far were map_disk(a, b) and then map_disk(b, a).
RoundTripDone ==
    /\ Len(map_calls) = 2
    /\ map_calls[2] = <<map_calls[1][2], map_calls[1][1]>>
    /\ map_err = ""

\* C4: after map_disk(a, b) and then map_disk(b, a) the mounts (path,
\* parent), the PV rows (pv_name, parent), the MD member lists and the LUKS
\* keys equal their values before the first call.
C4_RoundTripRestores ==
    RoundTripDone =>
        /\ MntRefs(bk_mnts) = MntRefs(orig.mnts)
        /\ PvRefs(PVS) = PvRefs(orig.pvs)
        /\ md_info = orig.md
        /\ KeySet(luks) = KeySet(orig.luks)

\* The kernel's partition path under the new disk name: "p" before the
\* number if and only if the disk name ends in a digit.
RulePath(new, num) ==
    IF EndsNumeric(new) THEN new \o <<"p">> \o num ELSE new \o num

\* C5: after map_disk(old, new), every mount of kind part or part-mpath whose
\* parent was old with partition number N has the path new + "p" + N when
\* new ends in a digit and new + N otherwise, and the parent new, also
\* when old itself ends in a digit.
C5_PartPathRule ==
    (Len(map_calls) >= 1 /\ map_err = "") =>
        LET old == map_calls[Len(map_calls)][1]
            new == map_calls[Len(map_calls)][2]
        IN  \A i \in 1..Len(pre.mnts) :
                (pre.mnts[i].v.type \in {"part", "part-mpath"} /\ pre.mnts[i].v.parent = old)
                    => LET now == Get(bk_mnts, pre.mnts[i].k) IN
                       /\ now.path = RulePath(new, TrailingDigits(pre.mnts[i].v.path))
                       /\ now.parent = new

\* The reference r names the disk d: it is d or a partition of d.
NamesDisk(r, d) == Len(r) >= Len(d) /\ SubSeq(r, 1, Len(d)) = d

\* A reference that named a names b, and one that named b names a.
Exchanged(before, now, a, b) ==
    /\ NamesDisk(before, a) => NamesDisk(now, b)
    /\ NamesDisk(before, b) => NamesDisk(now, a)

\* The disk d was a key of bk_disks before the first call: the captured
\* fact sets have an entry for every disk a reference names.
OrigHasDisk(d) ==
    \/ \E i \in 1..Len(orig.mnts) : NamesDisk(orig.mnts[i].v.path, d)
    \/ \E i \in 1..Len(orig.pvs) : NamesDisk(orig.pvs[i].pv_name, d)
    \/ \E m \in 1..Len(orig.md) : \E j \in 1..Len(orig.md[m].v) :
           NamesDisk(orig.md[m].v[j], Basename(d))
    \/ \E i \in 1..Len(orig.luks) : NamesDisk(orig.luks[i].k, d)

\* C19: after map_disk(a, b) and then map_disk(b, a), every mount path and
\* parent, PV pv_name and parent, MD member and disks-map key that named a
\* names b, and every one that named b names a.
C19_SwapExchanges ==
    RoundTripDone =>
        LET a == map_calls[1][1]
            b == map_calls[1][2]
        IN  /\ \A i \in 1..Len(orig.mnts) :
                   LET now == Get(bk_mnts, orig.mnts[i].k) IN
                   /\ Exchanged(orig.mnts[i].v.path, now.path, a, b)
                   /\ Exchanged(orig.mnts[i].v.parent, now.parent, a, b)
            /\ \A i \in 1..Len(orig.pvs) :
                   /\ Exchanged(orig.pvs[i].pv_name, PVS[i].pv_name, a, b)
                   /\ Exchanged(orig.pvs[i].parent, PVS[i].parent, a, b)
            /\ \A m \in 1..Len(orig.md) : \A j \in 1..Len(orig.md[m].v) :
                   Exchanged(orig.md[m].v[j], md_info[m].v[j], Basename(a), Basename(b))
            /\ OrigHasDisk(a) => Has(tmp_mapped_disks, b)
            /\ OrigHasDisk(b) => Has(tmp_mapped_disks, a)

\* C20: after map_disk(old, new) every LUKS descriptor whose partition was
\* on old is keyed by the partition of new with the same number, and every
\* key of the LUKS map has its sidecar file <basename>.backup holding the
\* header captured for that container.
C20_LuksRekeyed ==
    (Len(map_calls) >= 1 /\ map_err = "") =>
        LET old == map_calls[Len(map_calls)][1]
            new == map_calls[Len(map_calls)][2]
        IN  /\ \A i \in 1..Len(pre.luks) :
                   NamesDisk(pre.luks[i].k, old) =>
                       LET key == RulePath(new, TrailingDigits(pre.luks[i].k)) IN
                       Has(luks, key) /\ Get(luks, key) = pre.luks[i].v
            /\ \A i \in 1..Len(luks) :
                   \E x \in luks_files :
                       x.stem = Basename(luks[i].k) /\ x.hdr = luks[i].v.uuid

MapOff ==
    /\ bk_disks = <<>>
    /\ tmp_mapped_disks = <<>>
    /\ bk_mnts = <<>>
    /\ lst_mapped_mps = <<>>
    /\ md_info = <<>>
    /\ luks = <<>>
    /\ PVS = <<>>
    /\ luks_files = {}
    /\ orig = <<>>
    /\ pre = <<>>
    /\ map_calls = <<>>
    /\ map_err = "off"

----------------------------------------------------------------------------
\* Recover.cmp_disks.

MaxBkDisks == 2
MaxLiveDisks == 2
MaxSize == 2

CmpBkNames == {SDA, SDB, MPA}

CmpLiveNames == {SDA, SDB, SDC, MPA}

Serials == {"", "A"}

DiskInfos == [id_serial : Serials, size : 1..MaxSize]

\* The dicts of at most max disks with distinct names.
RECURSIVE DiskDicts(_, _)
DiskDicts(names, max) ==
    IF max = 0 THEN {<<>>}
    ELSE LET shorter == DiskDicts(names, max - 1) IN
         shorter \cup
         {Append(d, [k |-> n, v |-> info]) :
             d \in {x \in shorter : Len(x) = max - 1}, n \in names, info \in DiskInfos}

DistinctKeys(d) == \A i, j \in 1..Len(d) : d[i].k = d[j].k => i = j

\* The mount of partition 1 of every captured disk.
CmpMnts(disks) ==
    [i \in 1..Len(disks) |->
        [k |-> MountPoints[i],
         v |-> [path |-> PartPath(disks[i].k, 1), parent |-> disks[i].k, type |-> "part"]]]

\* Lines 113-128: the live disk of the same name matches.
NameMatch(fd, disk1, info1) ==
    /\ Has(fd, disk1)
    /\ IF info1.id_serial # "" /\ info1.id_serial = Get(fd, disk1).id_serial
       THEN info1.size = Get(fd, disk1).size
       ELSE info1.size = Get(fd, disk1).size

\* Lines 136-168: the loop over list(facts_disks.items()), from entry j on.
\* st is [f, calls, fd, psm, larger, raised]: the facts, the map_disk calls,
\* facts_disks, possible_size_matching_disks, larger_disks, and whether
\* line 168 raised.
RECURSIVE SweepInner(_, _, _, _, _)
SweepInner(st, disk1, info1, items, j) ==
    IF j > Len(items) THEN st
    ELSE LET disk2 == items[j].k
             sn1 == info1.id_serial
             sn2 == items[j].v.id_serial
             size1 == info1.size
             size2 == items[j].v.size
         IN  IF ~IsMapper(disk2) /\ IsMapper(disk1)
             THEN SweepInner(st, disk1, info1, items, j + 1)
             ELSE IF sn1 # "" /\ sn2 # "" /\ sn1 = sn2
             THEN IF size1 = size2
                  THEN [st EXCEPT !.f = map_disk(st.f, disk1, disk2),
                                  !.calls = Append(st.calls, <<disk1, disk2>>),
                                  !.fd = Del(st.fd, disk2)]
                  ELSE SweepInner(st, disk1, info1, items, j + 1)
             ELSE IF size1 = size2
             THEN [st EXCEPT !.psm = Append(st.psm, disk2), !.fd = Del(st.fd, disk2)]
             ELSE IF size1 < size2
             THEN SweepInner([st EXCEPT !.larger = Append(st.larger, disk2)],
                             disk1, info1, items, j + 1)
             ELSE [st EXCEPT !.raised = TRUE]

CmpInit ==
    /\ bk_disks \in {d \in DiskDicts(CmpBkNames, MaxBkDisks) : Len(d) >= 1 /\ DistinctKeys(d)}
    /\ facts_disks_live \in {d \in DiskDicts(CmpLiveNames, MaxLiveDisks) :
                              Len(d) >= 1 /\ DistinctKeys(d)}
    /\ facts_disks = facts_disks_live
    /\ cmp_bk = bk_disks
    /\ tmp_mapped_disks = <<>>
    /\ bk_mnts = CmpMnts(bk_disks)
    /\ lst_mapped_mps = <<>>
    /\ md_info = <<>>
    /\ luks = <<>>
    /\ PVS = <<>>
    /\ luks_files = {}
    /\ orig = [mnts |-> bk_mnts, md |-> <<>>, luks |-> <<>>, pvs |-> <<>>]
    /\ pre = orig
    /\ map_calls = <<>>
    /\ map_err = ""
    /\ cmp_pc = "sweep"
    /\ cmp_i = 1
    /\ matching_size_disks = <<>>
    /\ possible_larger_disks = <<>>
    /\ cmp_log = <<>>

\* Lines 103-174: one pass of the loop over bk_disks.items().
CmpSweep ==
    /\ cmp_pc = "sweep"
    /\ cmp_i <= Len(cmp_bk)
    /\ LET disk1 == cmp_bk[cmp_i].k
           info1 == cmp_bk[cmp_i].v
       IN  /\ cmp_log' = Append(cmp_log, [disk |-> disk1, info |-> info1,
                                          same |-> NameMatch(facts_disks, disk1, info1),
                                          avail |-> facts_disks])
           /\ IF NameMatch(facts_disks, disk1, info1)
              THEN /\ facts_disks' = Del(facts_disks, disk1)
                   /\ cmp_pc' = cmp_pc
                   /\ UNCHANGED <<factVars, map_calls, map_err, matching_size_disks,
                                  possible_larger_disks>>
              ELSE LET st == SweepInner([f |-> Facts, calls |-> map_calls,
                                         fd |-> facts_disks, psm |-> <<>>,
                                         larger |-> <<>>, raised |-> FALSE],
                                        disk1, info1, facts_disks, 1)
                   IN  /\ SetFacts(st.f)
                       /\ map_calls' = st.calls
                       /\ map_err' = st.f.err
                       /\ facts_disks' = st.fd
                       /\ cmp_pc' = IF st.raised THEN "ExistsError_size"
                                    ELSE IF st.f.err # "" THEN st.f.err
                                    ELSE cmp_pc
                       /\ matching_size_disks' =
                            IF ~st.raised /\ st.f.err = "" /\ st.psm # <<>>
                            THEN Put(matching_size_disks, disk1, st.psm)
                            ELSE matching_size_disks
                       /\ possible_larger_disks' =
                            IF ~st.raised /\ st.f.err = "" /\ st.larger # <<>>
                            THEN Put(possible_larger_disks, disk1, st.larger)
                            ELSE possible_larger_disks
    /\ cmp_i' = cmp_i + 1
    /\ UNCHANGED <<facts_disks_live, cmp_bk, orig, pre>>
    /\ UNCHANGED <<pvVars, layVars, lvmVars, cmds, bkVars, mainVars, bmVars, rcVars, ptVars, mdVars, dvVars>>

\* Line 176: the sweep is over.
CmpSweepEnd ==
    /\ cmp_pc = "sweep"
    /\ cmp_i > Len(cmp_bk)
    /\ cmp_pc' = "size"
    /\ cmp_i' = 1
    /\ UNCHANGED <<factVars, orig, pre, map_calls, map_err, facts_disks_live, facts_disks,
                   cmp_bk, matching_size_disks, possible_larger_disks, cmp_log>>
    /\ UNCHANGED <<pvVars, layVars, lvmVars, cmds, bkVars, mainVars, bmVars, rcVars, ptVars, mdVars, dvVars>>

\* A map_disk call of one of the two later loops, or the ExistsError of a
\* refused answer.
CmpMapOrRefuse(key, m_disk, ok) ==
    IF ok
    THEN LET f == map_disk(Facts, key, m_disk) IN
         /\ SetFacts(f)
         /\ map_calls' = Append(map_calls, <<key, m_disk>>)
         /\ map_err' = f.err
         /\ cmp_pc' = IF f.err # "" THEN f.err ELSE cmp_pc
    ELSE /\ cmp_pc' = "ExistsError_input"
         /\ UNCHANGED <<factVars, map_calls, map_err>>

\* Lines 177-194: one pass of the loop over matching_size_disks.items(); the
\* operator answers m_disk when there is more than one candidate.
CmpSizeMatch ==
    /\ cmp_pc = "size"
    /\ cmp_i <= Len(matching_size_disks)
    /\ LET key == matching_size_disks[cmp_i].k
           vals == matching_size_disks[cmp_i].v
       IN  IF Len(vals) > 1
           THEN \E m_disk \in CmpLiveNames :
                    CmpMapOrRefuse(key, m_disk,
                        Has(facts_disks_live, m_disk)
                        /\ \E x \in 1..Len(vals) : vals[x] = m_disk)
           ELSE CmpMapOrRefuse(key, vals[1], TRUE)
    /\ cmp_i' = cmp_i + 1
    /\ UNCHANGED <<orig, pre, facts_disks_live, facts_disks, cmp_bk, matching_size_disks,
                   possible_larger_disks, cmp_log>>
    /\ UNCHANGED <<pvVars, layVars, lvmVars, cmds, bkVars, mainVars, bmVars, rcVars, ptVars, mdVars, dvVars>>

\* Line 196: the loop over matching_size_disks is over.
CmpSizeEnd ==
    /\ cmp_pc = "size"
    /\ cmp_i > Len(matching_size_disks)
    /\ cmp_pc' = "larger"
    /\ cmp_i' = 1
    /\ UNCHANGED <<factVars, orig, pre, map_calls, map_err, facts_disks_live, facts_disks,
                   cmp_bk, matching_size_disks, possible_larger_disks, cmp_log>>
    /\ UNCHANGED <<pvVars, layVars, lvmVars, cmds, bkVars, mainVars, bmVars, rcVars, ptVars, mdVars, dvVars>>

\* Lines 197-217: one pass of the loop over possible_larger_disks.items();
\* the operator answers m_disk. (A stored list is never empty, so the
\* branch of lines 218-220 is not taken.)
CmpLargerPrompt ==
    /\ cmp_pc = "larger"
    /\ cmp_i <= Len(possible_larger_disks)
    /\ LET key == possible_larger_disks[cmp_i].k
           vals == possible_larger_disks[cmp_i].v
       IN  \E m_disk \in CmpLiveNames :
               CmpMapOrRefuse(key, m_disk,
                   Has(facts_disks_live, m_disk)
                   /\ \E x \in 1..Len(vals) : vals[x] = m_disk)
    /\ cmp_i' = cmp_i + 1
    /\ UNCHANGED <<orig, pre, facts_disks_live, facts_disks, cmp_bk, matching_size_disks,
                   possible_larger_disks, cmp_log>>
    /\ UNCHANGED <<pvVars, layVars, lvmVars, cmds, bkVars, mainVars, bmVars, rcVars, ptVars, mdVars, dvVars>>

\* Line 223: self.bk_disks.update(self.tmp_mapped_disks), from entry i on.
RECURSIVE UpdateFrom(_, _, _)
UpdateFrom(d, other, i) ==
    IF i > Len(other) THEN d
    ELSE UpdateFrom(Put(d, other[i].k, other[i].v), other, i + 1)

\* Lines 222-229: the mapped disks go back into bk_disks; cmp_disks returns.
CmpReturn ==
    /\ cmp_pc = "larger"
    /\ cmp_i > Len(possible_larger_disks)
    /\ bk_disks' = UpdateFrom(bk_disks, tmp_mapped_disks, 1)
    /\ cmp_pc' = "returned"
    /\ UNCHANGED <<tmp_mapped_disks, bk_mnts, lst_mapped_mps, md_info, luks, PVS,
                   luks_files, orig, pre, map_calls, map_err, facts_disks_live,
                   facts_disks, cmp_bk, cmp_i, matching_size_disks,
                   possible_larger_disks, cmp_log>>
    /\ UNCHANGED <<pvVars, layVars, lvmVars, cmds, bkVars, mainVars, bmVars, rcVars, ptVars, mdVars, dvVars>>

CmpNext ==
    \/ CmpSweep
    \/ CmpSweepEnd
    \/ CmpSizeMatch
    \/ CmpSizeEnd
    \/ CmpLargerPrompt
    \/ CmpReturn

CmpOff ==
    /\ facts_disks_live = <<>>
    /\ facts_disks = <<>>
    /\ cmp_bk = <<>>
    /\ cmp_pc = "off"
    /\ cmp_i = 0
    /\ matching_size_disks = <<>>
    /\ possible_larger_disks = <<>>
    /\ cmp_log = <<>>

\* A live disk the sweep may pair with a captured disk: a captured
\* multipath disk only with a live multipath disk (line 138).
Eligible(disk1, disk2) == IsMapper(disk1) => IsMapper(disk2)

\* The captured disk was paired: by its own path, or by a map_disk call.
Paired(d) ==
    \/ \E i \in 1..Len(cmp_log) : cmp_log[i].disk = d /\ cmp_log[i].same
    \/ \E c \in 1..Len(map_calls) : map_calls[c][1] = d

\* Every captured disk has a live disk at least as large.
EveryDiskFits ==
    \A i \in 1..Len(cmp_bk) : \E j \in 1..Len(facts_disks_live) :
        /\ Eligible(cmp_bk[i].k, facts_disks_live[j].k)
        /\ facts_disks_live[j].v.size >= cmp_bk[i].v.size

\* C1: when every captured disk has a live disk at least as large,
\* cmp_disks never raises the "no disk large enough" ExistsError, and when
\* it returns every captured disk is paired with a live disk.
C1_MatcherTotal ==
    EveryDiskFits =>
        /\ cmp_pc # "ExistsError_size"
        /\ cmp_pc = "returned" => \A i \in 1..Len(cmp_bk) : Paired(cmp_bk[i].k)

\* The pairs (captured disk, live disk) cmp_disks made: a same-path match
\* pairs a disk with itself, a map_disk call pairs its two arguments.
Pairs ==
    {<<cmp_log[i].disk, cmp_log[i].disk>> : i \in {x \in 1..Len(cmp_log) : cmp_log[x].same}}
    \cup {<<map_calls[c][1], map_calls[c][2]>> : c \in 1..Len(map_calls)}

\* C28: when cmp_disks returns, no live disk is the target of two different
\* captured disks, and the rewritten disks map has as many entries as the
\* captured one, for every iteration order and every accepted answer.
C28_PairingInjective ==
    cmp_pc = "returned" =>
        /\ \A p, q \in Pairs : p[2] = q[2] => p[1] = q[1]
        /\ Len(bk_disks) = Len(cmp_bk)

\* The sweep found, for the disk of this log entry, no same-path match and
\* no unconsumed live disk at least as large.
Starved(e) ==
    /\ ~e.same
    /\ \A j \in 1..Len(e.avail) :
        Eligible(e.disk, e.avail[j].k) => e.avail[j].v.size < e.info.size

\* C2: if some captured disk has no same-path match and no unconsumed live
\* disk at least as large when it is processed (also when none is left at
\* all), cmp_disks does not return: it raises ExistsError.
C2_FatalWhenNoDiskFits ==
    (\E i \in 1..Len(cmp_log) : Starved(cmp_log[i])) => cmp_pc # "returned"

\* The unconsumed live disks with the serial (non-empty) and the size of
\* the disk of this log entry.
SerialSizeTwins(e) ==
    {e.avail[j].k : j \in {x \in 1..Len(e.avail) :
        /\ Eligible(e.disk, e.avail[x].k)
        /\ e.info.id_serial # ""
        /\ e.avail[x].v.id_serial = e.info.id_serial
        /\ e.avail[x].v.size = e.info.size}}

\* C3: a captured disk with no same-path match and an unconsumed live disk
\* of the same non-empty serial and the same size is mapped to such a disk,
\* and to no other, without a prompt and without becoming a size-only or
\* larger-disk case, whatever the order of the live disks.
C3_SerialSizeAutoMap ==
    cmp_pc = "returned" =>
        \A i \in 1..Len(cmp_log) :
            LET e == cmp_log[i] IN
            (~e.same /\ SerialSizeTwins(e) # {}) =>
                /\ \E c \in 1..Len(map_calls) :
                        map_calls[c][1] = e.disk /\ map_calls[c][2] \in SerialSizeTwins(e)
                /\ \A c \in 1..Len(map_calls) :
                        map_calls[c][1] = e.disk => map_calls[c][2] \in SerialSizeTwins(e)
                /\ ~Has(matching_size_disks, e.disk)
                /\ ~Has(possible_larger_disks, e.disk)

----------------------------------------------------------------------------
\* RecoveryLVM (lvm.py).

VgNames == {"vg0", "vg1"}

\* The pv_name of a missing physical volume in the pvs report.
Unknown == <<"[unknown]">>

\* Line 151: "unknown" in pv['pv_name']
IsUnknown(pv_name) == \E i \in 1..Len(pv_name) : pv_name[i] = "[unknown]"

Lv(vg, name, size) == [vg_name |-> vg, lv_name |-> name, lv_size |-> size]

\* The lvs rows a volume group can have.
LvRows(vg) ==
    {<<>>, <<Lv(vg, "root", "1g")>>, <<Lv(vg, "root", "2g")>>,
     <<Lv(vg, "root", "1g"), Lv(vg, "swap", "1g")>>}

\* The lvs reports: the rows of vg0, then the rows of vg1.
LvReports == {a \o b : a \in LvRows("vg0"), b \in LvRows("vg1")}

\* The captured pvs rows: vg0 on /dev/sda2, vg1 on /dev/sdb1.
LvmPvs ==
    <<[pv_name |-> PartPath(SDA, 2), parent |-> SDA, d_type |-> "part", vg_name |-> "vg0"],
      [pv_name |-> PartPath(SDB, 1), parent |-> SDB, d_type |-> "part", vg_name |-> "vg1"]>>

\* The pvs rows of the missing physical volumes of a host.
UnknownRows ==
    {<<>>} \cup {<<[pv_name |-> Unknown, vg_name |-> v]>> : v \in VgNames}
    \cup {<<[pv_name |-> Unknown, vg_name |-> v], [pv_name |-> Unknown, vg_name |-> w]>> :
            v \in VgNames, w \in VgNames}

\* The lists of distinct volume groups a backup names.
VgLists ==
    {<<v>> : v \in VgNames} \cup {p \in VgNames \X VgNames : p[1] # p[2]}

\* Lines 194-215: matching_lvm over self.bk_lvm['LVS'] from row i on, with
\* the counters match and total; rc is self.rc_lvm['LVS'].
RECURSIVE MatchingFrom(_, _, _, _, _, _)
MatchingFrom(bk, rc, vg, i, match, total) ==
    IF i > Len(bk) THEN match = total
    ELSE IF bk[i].vg_name = vg
    THEN LET hits == Cardinality({j \in 1..Len(rc) :
                        bk[i].lv_name = rc[j].lv_name /\ bk[i].lv_size = rc[j].lv_size})
         IN  IF match + hits = 0 THEN FALSE
             ELSE MatchingFrom(bk, rc, vg, i + 1, match + hits, total + 1)
    ELSE MatchingFrom(bk, rc, vg, i + 1, match, total)

\* matching_lvm(vg): the live rows are those of self.rc_lvm, the report
\* __init__ took (line 201).
matching_lvm(vg) == MatchingFrom(bk_lvs, rc_lvm.LVS, vg, 1, 0, 0)

\* Lines 147-156: the list rc_vgs.
RECURSIVE NotMatching(_, _)
NotMatching(acc, i) ==
    IF i > Len(bk_vgs) THEN acc
    ELSE IF ~matching_lvm(bk_vgs[i]) /\ ~\E x \in 1..Len(acc) : acc[x] = bk_vgs[i]
    THEN NotMatching(Append(acc, bk_vgs[i]), i + 1)
    ELSE NotMatching(acc, i + 1)

UnknownVgs(pvs) ==
    LET u == SelectSeq(pvs, LAMBDA pv : IsUnknown(pv.pv_name))
    IN  [i \in 1..Len(u) |-> u[i].vg_name]

Cmd(op, dev, tag) == [op |-> op, dev |-> dev, tag |-> tag]

LvmInit ==
    /\ bk_vgs \in VgLists
    /\ bk_lvs \in LvReports
    /\ host_lvs \in LvReports
    /\ host_pvs \in UnknownRows
    /\ PVS = LvmPvs
    /\ bk_disks = <<>>
    /\ tmp_mapped_disks = <<>>
    /\ bk_mnts = <<>>
    /\ lst_mapped_mps = <<>>
    /\ md_info = <<>>
    /\ luks = <<>>
    /\ luks_files = {}
    /\ orig = <<>>
    /\ pre = <<>>
    /\ map_calls = <<>>
    /\ map_err = "off"
    /\ rc_lvm = None
    /\ rc_vgs = <<>>
    /\ lvm_pc = "new"
    /\ lvm_i = 0
    /\ cmds = <<>>

\* Lines 130-136: RecoveryLVM.__init__ takes the report.
LvmNew ==
    /\ lvm_pc = "new"
    /\ rc_lvm' = [PVS |-> host_pvs, LVS |-> host_lvs]
    /\ lvm_pc' = "check"
    /\ UNCHANGED <<bk_vgs, bk_lvs, host_pvs, host_lvs, rc_vgs, lvm_i, cmds>>
    /\ UNCHANGED <<pvVars, layVars, mapVars, cmpVars, bkVars, mainVars, bmVars, rcVars, ptVars, mdVars, dvVars>>

\* Lines 147-159: the volume groups to restore.
LvmCheck ==
    /\ lvm_pc = "check"
    /\ rc_vgs' = NotMatching(UnknownVgs(rc_lvm.PVS), 1)
    /\ lvm_pc' = IF rc_vgs' # <<>> THEN "deactivate" ELSE "activate"
    /\ lvm_i' = 1
    /\ UNCHANGED <<bk_vgs, bk_lvs, host_pvs, host_lvs, rc_lvm, cmds>>
    /\ UNCHANGED <<pvVars, layVars, mapVars, cmpVars, bkVars, mainVars, bmVars, rcVars, ptVars, mdVars, dvVars>>

\* Line 162 and lines 17-31: deactivate_vgs; vgchange -an ends in
\* RunCMDError when a logical volume is open, and goes on otherwise.
LvmDeactivate ==
    /\ lvm_pc = "deactivate"
    /\ cmds' = Append(cmds, Cmd("vgchange -an", None, ""))
    /\ \E open \in BOOLEAN : lvm_pc' = IF open THEN "RunCMDError" ELSE "restore"
    /\ UNCHANGED <<bk_vgs, bk_lvs, host_pvs, host_lvs, rc_lvm, rc_vgs, lvm_i>>
    /\ UNCHANGED <<pvVars, layVars, mapVars, cmpVars, bkVars, mainVars, bmVars, rcVars, ptVars, mdVars, dvVars>>

\* The rows of a report that belong to one volume group.
RowsOf(report, vg) == SelectSeq(report, LAMBDA row : row.vg_name = vg)

\* Lines 166-169 and 93-113: restore_pv_metadata for the captured physical
\* volumes of vg that exist, from row i of self.bk_lvm['PVS'] on. fail is
\* the command that fails for the first of them: "pvremove" (vgchange -an
\* is re-run and the restore goes on), "open" (that vgchange -an raises),
\* "pvcreate" (run_cmd raises), or a later one.
RECURSIVE PvCmds(_, _, _, _, _)
PvCmds(vg, there, i, fail, first) ==
    IF i > Len(PVS) THEN <<>>
    ELSE IF i \in there
    THEN LET f == IF first THEN fail ELSE "none"
             c == <<Cmd("pvremove", PVS[i].pv_name, vg)>>
                  \o (IF f \in {"pvremove", "open"}
                      THEN <<Cmd("vgchange -an", None, "")>> ELSE <<>>)
                  \o (IF f = "open" THEN <<>> ELSE <<Cmd("pvcreate", PVS[i].pv_name, vg)>>)
         IN  IF f \in {"open", "pvcreate"} THEN c
             ELSE c \o PvCmds(vg, there, i + 1, fail, FALSE)
    ELSE PvCmds(vg, there, i + 1, fail, first)

\* Lines 164-171: one pass of the loop over rc_vgs. there holds the rows
\* whose pv_name exists; vgcfgrestore succeeds only when every physical
\* volume of the group is there, and then the host has the captured
\* logical volumes of the group and none of its volumes is missing.
LvmRestore ==
    /\ lvm_pc = "restore"
    /\ LET vg == rc_vgs[lvm_i]
           rows == {i \in 1..Len(PVS) : PVS[i].vg_name = vg}
           last == lvm_i = Len(rc_vgs)
       IN  \E there \in SUBSET rows :
           \E fail \in {"none", "pvremove", "open", "pvcreate", "vgcfgrestore"} :
               /\ fail \in {"pvremove", "open", "pvcreate"} => there # {}
               /\ there # rows => fail \in {"open", "pvcreate", "vgcfgrestore"}
               /\ cmds' = cmds \o PvCmds(vg, there, 1, fail, TRUE)
                               \o (IF fail \in {"open", "pvcreate"} THEN <<>>
                                   ELSE <<Cmd("vgcfgrestore", None, vg)>>)
               /\ IF fail \in {"open", "pvcreate", "vgcfgrestore"}
                  THEN /\ lvm_pc' = "RunCMDError"
                       /\ UNCHANGED <<host_lvs, host_pvs, lvm_i>>
                  ELSE /\ host_lvs' = (IF vg = "vg0" THEN RowsOf(bk_lvs, "vg0")
                                       ELSE RowsOf(host_lvs, "vg0"))
                                   \o (IF vg = "vg1" THEN RowsOf(bk_lvs, "vg1")
                                       ELSE RowsOf(host_lvs, "vg1"))
                       /\ host_pvs' = SelectSeq(host_pvs, LAMBDA pv : pv.vg_name # vg)
                       /\ lvm_pc' = IF last THEN "activate" ELSE "restore"
                       /\ lvm_i' = IF last THEN 1 ELSE lvm_i + 1
    /\ UNCHANGED <<bk_vgs, bk_lvs, rc_lvm, rc_vgs>>
    /\ UNCHANGED <<pvVars, layVars, mapVars, cmpVars, bkVars, mainVars, bmVars, rcVars, ptVars, mdVars, dvVars>>

\* Lines 174-182: one pass of the loop over bk_vgs: activate_vg, then the
\* check of the layout.
LvmActivate ==
    /\ lvm_pc = "activate"
    /\ lvm_i <= Len(bk_vgs)
    /\ cmds' = Append(cmds, Cmd("vgchange -ay", None, bk_vgs[lvm_i]))
    /\ \E ok \in BOOLEAN :
        /\ lvm_pc' = IF ~ok THEN "RunCMDError"
                     ELSE IF ~matching_lvm(bk_vgs[lvm_i]) THEN "RunCMDError_layout"
                     ELSE lvm_pc
        /\ lvm_i' = IF ok /\ matching_lvm(bk_vgs[lvm_i]) THEN lvm_i + 1 ELSE lvm_i
    /\ UNCHANGED <<bk_vgs, bk_lvs, host_pvs, host_lvs, rc_lvm, rc_vgs>>
    /\ UNCHANGED <<pvVars, layVars, mapVars, cmpVars, bkVars, mainVars, bmVars, rcVars, ptVars, mdVars, dvVars>>

\* lvm_check returns.
LvmReturn ==
    /\ lvm_pc = "activate"
    /\ lvm_i > Len(bk_vgs)
    /\ lvm_pc' = "returned"
    /\ UNCHANGED <<bk_vgs, bk_lvs, host_pvs, host_lvs, rc_lvm, rc_vgs, lvm_i, cmds>>
    /\ UNCHANGED <<pvVars, layVars, mapVars, cmpVars, bkVars, mainVars, bmVars, rcVars, ptVars, mdVars, dvVars>>

LvmNext ==
    \/ LvmNew
    \/ LvmCheck
    \/ LvmDeactivate
    \/ LvmRestore
    \/ LvmActivate
    \/ LvmReturn

\* The (lv_name, lv_size) tuples of the rows of one volume group.
LvTuples(report, vg) ==
    {<<RowsOf(report, vg)[i].lv_name, RowsOf(report, vg)[i].lv_size>> :
        i \in 1..Len(RowsOf(report, vg))}

\* C26: matching_lvm(vg) is true if and only if the captured logical
\* volumes of vg and the live logical volumes of vg have the same set of
\* (lv_name, lv_size) tuples.
C26_MatchingIffSameTuples ==
    lvm_pc \notin {"off", "new"} =>
        \A vg \in VgNames :
            matching_lvm(vg) <=> LvTuples(bk_lvs, vg) = LvTuples(rc_lvm.LVS, vg)

LvmOff ==
    /\ bk_vgs = <<>>
    /\ bk_lvs = <<>>
    /\ host_pvs = <<>>
    /\ host_lvs = <<>>
    /\ rc_lvm = None
    /\ rc_vgs = <<>>
    /\ lvm_pc = "off"
    /\ lvm_i = 0

----------------------------------------------------------------------------
\* Backup.get_bk_vgs (backup.py).

\* The array /dev/md/0 and the disks of its members sdb1 and sdc1.
MD0 == <<"/dev/md/", "0">>

BkMdDisks == <<SDB, SDC>>

\* fs.py 141-149: the info of a mount.
BkMnt(type, path, parent, vg, md_devname) ==
    [type |-> type, path |-> path, parent |-> parent, vg |-> vg, md_devname |-> md_devname]

\* fs.py 117-120: the mount of a logical volume of a group.
LvMnt(vg) == BkMnt("lvm", <<"/dev/mapper/", vg>>, None, vg, None)

\* The mounts of facts.mnts: a logical volume of a group, the partition
\* sda1, a filesystem on the whole disk sdc, the array /dev/md/0.
BkMntKinds ==
    {LvMnt(v) : v \in VgNames}
    \cup {BkMnt("part", PartPath(SDA, 1), SDA, None, None),
          BkMnt("disk", SDC, None, None, None),
          BkMnt("raid", MD0, None, None, MD0)}

\* facts.mnts: the first n mount points, each of one of the kinds.
BkMnts ==
    UNION {{[i \in 1..n |-> [k |-> MountPoints[i], v |-> kind[i]]] :
                kind \in [1..n -> BkMntKinds]} : n \in 0..Len(MountPoints)}

\* lvm.py 62-84: the pvs row of a physical volume on a partition.
BkPv(vg, disk, num) ==
    [vg_name |-> vg, pv_name |-> PartPath(disk, num), parent |-> disk, d_type |-> "part",
     md_dev |-> 0]

\* The pvs rows of one group: a partition of sda or of sdb, the raw disk
\* sdb, two partitions of sdb, a partition of sdb and one of sdc, or the
\* array /dev/md/0.
BkPvRows(vg) ==
    {<<BkPv(vg, SDA, 2)>>, <<BkPv(vg, SDB, 1)>>,
     <<[vg_name |-> vg, pv_name |-> SDB, parent |-> None, d_type |-> "disk", md_dev |-> 0]>>,
     <<BkPv(vg, SDB, 1), BkPv(vg, SDB, 2)>>, <<BkPv(vg, SDB, 1), BkPv(vg, SDC, 1)>>,
     <<[vg_name |-> vg, pv_name |-> MD0, parent |-> None, d_type |-> "raid", md_dev |-> 1]>>}

In(x, list) == \E i \in 1..Len(list) : list[i] = x

\* Lines 387-407: the loop over self.facts.lvm['PVS'] for one mount, from
\* row j on. st is [mnts, ex, ret, err]: facts.mnts, cfg.bk_exclude_vgs,
\* the list bk_vgs and the exception, if any. The continue of lines 398 and
\* 407 goes on with the next row.
RECURSIVE BkPvLoop(_, _, _, _)
BkPvLoop(st, mnt, vg, j) ==
    IF j > Len(facts_pvs) THEN st
    ELSE LET pv == facts_pvs[j]
             hit == /\ pv.vg_name = vg
                    /\ IF Truthy(pv.parent) THEN In(pv.parent, bk_exclude_disks)
                       ELSE In(pv.pv_name, bk_exclude_disks)
         IN  IF ~hit THEN BkPvLoop(st, mnt, vg, j + 1)
             ELSE IF ~Has(st.mnts, mnt)
             THEN [st EXCEPT !.ex = Append(@, vg), !.err = "KeyError"]
             ELSE BkPvLoop([st EXCEPT !.ex = Append(@, vg), !.mnts = Del(@, mnt)],
                           mnt, vg, j + 1)

\* Lines 372-409: the loop over the copy mnts, from entry i on.
RECURSIVE BkMntLoop(_, _, _)
BkMntLoop(st, mnts, i) ==
    IF i > Len(mnts) THEN st
    ELSE LET mnt == mnts[i].k
             info == mnts[i].v
         IN  IF ~(info.type \in {"lvm", "crypt"} /\ ~Truthy(info.parent))
             THEN BkMntLoop(st, mnts, i + 1)
             ELSE IF In(info.vg, st.ex)
             THEN BkMntLoop([st EXCEPT !.mnts = Del(@, mnt),
                                       !.ret = SelectSeq(@, LAMBDA v : v # info.vg)],
                            mnts, i + 1)
             ELSE LET st2 == IF bk_exclude_disks # <<>>
                             THEN BkPvLoop(st, mnt, info.vg, 1) ELSE st
                  IN  IF st2.err # "" THEN st2
                      ELSE BkMntLoop([st2 EXCEPT !.ret = IF In(info.vg, @) THEN @
                                                        ELSE Append(@, info.vg)],
                                     mnts, i + 1)

BkInit ==
    /\ facts_mnts \in BkMnts
    /\ facts_pvs \in {a \o b : a \in BkPvRows("vg0"), b \in BkPvRows("vg1")}
    /\ bk_exclude_vgs \in {<<>>} \cup {<<v>> : v \in VgNames}
    /\ bk_facts_disks = <<SDA, SDB, SDC>>
    /\ bk_exclude_disks \in {<<>>, <<SDA>>, <<SDB>>, <<SDC>>}
    /\ get_bk_vgs = None
    /\ bk_pc = "call"

\* One call of Backup.get_bk_vgs().
GetBkVgs ==
    /\ bk_pc = "call"
    /\ LET st == BkMntLoop([mnts |-> facts_mnts, ex |-> bk_exclude_vgs, ret |-> <<>>,
                            err |-> ""], facts_mnts, 1)
       IN  /\ facts_mnts' = st.mnts
           /\ bk_exclude_vgs' = st.ex
           /\ get_bk_vgs' = IF st.err = "" THEN st.ret ELSE None
           /\ bk_pc' = IF st.err = "" THEN "returned" ELSE st.err
    /\ UNCHANGED <<facts_pvs, bk_facts_disks, bk_exclude_disks>>
    /\ UNCHANGED <<pvVars, layVars, mapVars, cmpVars, lvmVars, cmds, mainVars, bmVars, rcVars, ptVars, mdVars, dvVars>>

\* not_in_append(dev, array) for every dev of devs.
RECURSIVE NotInAppendAll(_, _, _)
NotInAppendAll(devs, array, i) ==
    IF i > Len(devs) THEN array
    ELSE NotInAppendAll(devs, IF In(devs[i], array) THEN array ELSE Append(array, devs[i]),
                        i + 1)

\* Lines 177-204: the loop over self.facts.lvm['PVS'] from row j on;
\* bk_disks is the local list of the disks in use.
RECURSIVE CleanPvLoop(_, _, _)
CleanPvLoop(bk_vgs_arg, used, j) ==
    IF j > Len(facts_pvs) THEN used
    ELSE LET pv == facts_pvs[j]
         IN  IF ~In(pv.vg_name, bk_vgs_arg) THEN CleanPvLoop(bk_vgs_arg, used, j + 1)
             ELSE IF pv.md_dev # 0
             THEN CleanPvLoop(bk_vgs_arg, NotInAppendAll(BkMdDisks, used, 1), j + 1)
             ELSE IF pv.d_type \in {"disk", "mpath"}
             THEN CleanPvLoop(bk_vgs_arg, NotInAppendAll(<<pv.pv_name>>, used, 1), j + 1)
             ELSE IF pv.d_type = "part"
             THEN CleanPvLoop(bk_vgs_arg, NotInAppendAll(<<pv.parent>>, used, 1), j + 1)
             ELSE CleanPvLoop(bk_vgs_arg, used, j + 1)

\* Lines 208-237: the loop over the copy of self.facts.mnts from entry i
\* on. No mount point lies in the scratch directory (line 217).
RECURSIVE CleanMntLoop(_, _)
CleanMntLoop(used, i) ==
    IF i > Len(facts_mnts) THEN used
    ELSE LET info == facts_mnts[i].v
         IN  IF info.type = "lvm" THEN CleanMntLoop(used, i + 1)
             ELSE IF Truthy(info.parent) /\ ~In(info.parent, bk_exclude_disks)
             THEN IF Truthy(info.md_devname)
                  THEN CleanMntLoop(NotInAppendAll(BkMdDisks, used, 1), i + 1)
                  ELSE CleanMntLoop(NotInAppendAll(<<info.parent>>, used, 1), i + 1)
             ELSE CleanMntLoop(used, i + 1)

\* Lines 171-247: one call of Backup.cleanup_disks(bk_vgs) with the list
\* get_bk_vgs returned (lines 306-309).
CleanupDisks ==
    /\ bk_pc = "returned"
    /\ LET pv_disks == IF facts_pvs # <<>> THEN CleanPvLoop(get_bk_vgs, <<>>, 1) ELSE <<>>
           bk_disks_used == CleanMntLoop(pv_disks, 1)
       IN  bk_facts_disks' = SelectSeq(bk_facts_disks, LAMBDA d : In(d, bk_disks_used))
    /\ bk_pc' = "cleaned"
    /\ UNCHANGED <<facts_mnts, facts_pvs, bk_exclude_vgs, bk_exclude_disks, get_bk_vgs>>
    /\ UNCHANGED <<pvVars, layVars, mapVars, cmpVars, lvmVars, cmds, mainVars, bmVars, rcVars, ptVars, mdVars, dvVars>>

BkNext == GetBkVgs \/ CleanupDisks

BkOff ==
    /\ facts_mnts = <<>>
    /\ facts_pvs = <<>>
    /\ bk_facts_disks = <<>>
    /\ bk_exclude_vgs = <<>>
    /\ bk_exclude_disks = <<>>
    /\ get_bk_vgs = None
    /\ bk_pc = "off"

----------------------------------------------------------------------------
\* Recover.main without restore-only (recover.py 666-739): a backup of one
\* disk /dev/sda with MaxPlain mounted partitions and any of the features
\* below, restored on a host with one disk.

MaxPlain == 1

\* md: a partition is the member of the array md0. luks: a partition is a
\* LUKS container. vg0, vg1: a partition is the PV of the group, which has
\* the LV root. lvluks: the LV root of vg0 is a LUKS container. swap: a
\* partition is swap space.
MainFeatures == {"md", "luks", "vg0", "vg1", "lvluks", "swap"}

PartOf(feature) ==
    MaxPlain + CASE feature = "md" -> 1 [] feature = "vg0" -> 2 [] feature = "vg1" -> 3
                 [] feature = "luks" -> 4 [] feature = "swap" -> 5

MainLay(F) ==
    [labelled |-> TRUE, fs_type |-> "",
     parts |-> [n \in (1..MaxPlain) \cup {PartOf(f) : f \in F \ {"lvluks"}} |->
                    [start |-> n]]]

Blank == [labelled |-> FALSE, fs_type |-> "", parts |-> <<>>]

Mnt(mp, path, parent, type, fs_type, md_devname, vg) ==
    <<[k |-> mp, v |-> [path |-> path, parent |-> parent, type |-> type,
                        fs_type |-> fs_type, md_devname |-> md_devname, vg |-> vg]]>>

LvPath(vg) == <<"/dev/mapper/">> \o (IF vg = "vg0" THEN <<"v", "g", "0">> ELSE <<"v", "g", "1">>)
              \o <<"-", "r", "o", "o", "t">>

\* mnts.json: the mounts in the order of /proc/mounts, then the swaps.
MainMnts(F) ==
    LET plain[n \in 0..MaxPlain] ==
            IF n = 0 THEN <<>>
            ELSE plain[n - 1] \o Mnt(MountPoints[n], PartPath(SDA, n), SDA, "part", "xfs",
                                     None, None)
    IN  plain[MaxPlain]
        \o (IF "md" \in F
            THEN Mnt("/md", <<"/dev/", "m", "d", "1", "2", "7">>, None, "raid", "xfs",
                     <<"/dev/md/", "m", "d", "0">>, None) ELSE <<>>)
        \o (IF "lvluks" \in F
            THEN Mnt("/vg0", <<"/dev/mapper/", "luks-2">>, None, "crypt", "xfs", None, "vg0")
            ELSE IF "vg0" \in F
            THEN Mnt("/vg0", LvPath("vg0"), None, "lvm", "xfs", None, "vg0") ELSE <<>>)
        \o (IF "vg1" \in F
            THEN Mnt("/vg1", LvPath("vg1"), None, "lvm", "xfs", None, "vg1") ELSE <<>>)
        \o (IF "luks" \in F
            THEN Mnt("/luks", <<"/dev/mapper/", "luks-1">>, PartPath(SDA, PartOf("luks")),
                     "crypt", "xfs", None, None) ELSE <<>>)
        \o (IF "swap" \in F
            THEN Mnt("SWAP-0", PartPath(SDA, PartOf("swap")), SDA, "part", "swap", None, None)
            ELSE <<>>)

\* misc.json luks, in the order of the udev listing: the LV first.
MainLuks(F) ==
    (IF "lvluks" \in F THEN <<[k |-> LvPath("vg0"), v |-> [type |-> "lvm", uuid |-> 2]]>>
     ELSE <<>>)
    \o (IF "luks" \in F
        THEN <<[k |-> PartPath(SDA, PartOf("luks")), v |-> [type |-> "part", uuid |-> 1]]>>
        ELSE <<>>)

MainPvs(F) ==
    LET row(vg) == IF vg \in F
                   THEN <<[pv_name |-> PartPath(SDA, PartOf(vg)), parent |-> SDA,
                           d_type |-> "part", vg_name |-> vg]>>
                   ELSE <<>>
    IN  row("vg0") \o row("vg1")

MainVgs(F) == (IF "vg0" \in F THEN <<"vg0">> ELSE <<>>) \o (IF "vg1" \in F THEN <<"vg1">> ELSE <<>>)

\* The captured lvs rows: root of 1g in vg0, root of 2g in vg1.
MainLvs(F) ==
    [i \in 1..Len(MainVgs(F)) |->
        Lv(MainVgs(F)[i], "root", IF MainVgs(F)[i] = "vg0" THEN "1g" ELSE "2g")]

\* The stages with the filesystems made before the volume groups are
\* restored.
StageSeq_fmt_first ==
    <<"cmp_disks", "layout", "parted", "md", "luks_part", "fmt", "lvm", "luks_lvm", "mount",
      "mounted">>

\* The stages of main in program order.
StageSeq ==
    <<"cmp_disks", "layout", "parted", "md", "luks_part", "lvm", "luks_lvm", "fmt", "mount",
      "mounted">>

Following(stage) == StageSeq[1 + CHOOSE i \in 1..Len(StageSeq) : StageSeq[i] = stage]

MainInit ==
    \E F \in SUBSET MainFeatures :
        /\ "lvluks" \in F => "vg0" \in F
        /\ bk_disks = <<[k |-> SDA, v |-> [id_serial |-> "", size |-> 1, lay |-> MainLay(F)]]>>
        /\ facts_disks_live \in
             {<<[k |-> n, v |-> [id_serial |-> "", size |-> sz, lay |-> l]]>> :
                 n \in {SDA, SDC}, sz \in 1..2, l \in {Blank, MainLay(F)}}
        /\ bk_mnts = MainMnts(F)
        /\ md_info = IF "md" \in F
                     THEN <<[k |-> "md0", v |-> <<Basename(PartPath(SDA, PartOf("md")))>>]>>
                     ELSE <<>>
        /\ luks = MainLuks(F)
        /\ luks_files = {[stem |-> Basename(MainLuks(F)[i].k), hdr |-> MainLuks(F)[i].v.uuid] :
                            i \in 1..Len(MainLuks(F))}
        /\ PVS = MainPvs(F)
        /\ bk_vgs = MainVgs(F)
        /\ bk_lvs = MainLvs(F)
    /\ facts_disks = facts_disks_live
    /\ cmp_bk = bk_disks
    /\ tmp_mapped_disks = <<>>
    /\ lst_mapped_mps = <<>>
    /\ orig = [mnts |-> <<>>, md |-> <<>>, luks |-> <<>>, pvs |-> <<>>]
    /\ pre = orig
    /\ map_calls = <<>>
    /\ map_err = ""
    /\ cmp_pc = "sweep"
    /\ cmp_i = 1
    /\ matching_size_disks = <<>>
    /\ possible_larger_disks = <<>>
    /\ cmp_log = <<>>
    /\ host_pvs = <<>>
    /\ host_lvs = <<>>
    /\ rc_lvm = None
    /\ rc_vgs = <<>>
    /\ lvm_pc = "off"
    /\ lvm_i = 0
    /\ cmds = <<>>
    /\ main_pc = "cmp_disks"
    /\ main_i = 0
    /\ rc_part_disks = <<>>

\* Lines 782-788: an exception ends main in cleanup and exit(1).
Exit1 == "exit1"

\* Lines 674-678: cmp_disks returned; deactivate_vgs when there are bk_vgs.
MainCmpReturned ==
    /\ main_pc = "cmp_disks"
    /\ cmp_pc = "returned"
    /\ IF bk_vgs # <<>>
       THEN /\ cmds' = Append(cmds, Cmd("vgchange -an", None, ""))
            /\ \E open \in BOOLEAN :
                 main_pc' = IF open THEN Exit1 ELSE Following(main_pc)
       ELSE /\ main_pc' = Following(main_pc)
            /\ cmds' = cmds
    /\ main_i' = 1
    /\ UNCHANGED rc_part_disks
    /\ UNCHANGED <<pvVars, layVars, mapVars, cmpVars, lvmVars, bkVars, bmVars, rcVars, ptVars, mdVars, dvVars>>

\* Line 674: cmp_disks raised.
MainCmpRaised ==
    /\ main_pc = "cmp_disks"
    /\ cmp_pc \in {"ExistsError_size", "ExistsError_input", "AttributeError"}
    /\ main_pc' = Exit1
    /\ UNCHANGED <<main_i, rc_part_disks, cmds>>
    /\ UNCHANGED <<pvVars, layVars, mapVars, cmpVars, lvmVars, bkVars, bmVars, rcVars, ptVars, mdVars, dvVars>>

\* Lines 682-684: one pass of the loop over self.bk_disks.keys().
MainLayout ==
    /\ main_pc = "layout"
    /\ IF main_i <= Len(bk_disks)
       THEN LET d == bk_disks[main_i].k
                live == IF Has(facts_disks_live, d)
                        THEN <<Get(facts_disks_live, d).lay>> ELSE <<>>
            IN  /\ rc_part_disks' =
                     IF cmp_disk_layout(JsonDisk(bk_disks[main_i].v.lay), live)
                     THEN rc_part_disks ELSE Append(rc_part_disks, d)
                /\ main_i' = main_i + 1
                /\ main_pc' = main_pc
       ELSE /\ main_pc' = Following(main_pc)
            /\ main_i' = 1
            /\ UNCHANGED rc_part_disks
    /\ UNCHANGED cmds
    /\ UNCHANGED <<pvVars, layVars, mapVars, cmpVars, lvmVars, bkVars, bmVars, rcVars, ptVars, mdVars, dvVars>>

\* parted.py 330-336 and 167-218: add_partition for every numeric key of
\* bdisk, from entry i on; each ends in pdisk.commit().
RECURSIVE Commits(_, _, _)
Commits(bdisk, rdisk, i) ==
    IF i > Len(bdisk) THEN <<>>
    ELSE (IF IsNumeric(bdisk[i].k) THEN <<Cmd("commit", rdisk, "")>> ELSE <<>>)
         \o Commits(bdisk, rdisk, i + 1)

\* Lines 688-695 and parted.py 316-338: one pass of the loop over
\* rc_part_disks: recreate_disk. A disk without a partition table is
\* skipped; parted.getDevice raises for a disk the host does not have.
MainRecreate ==
    /\ main_pc = "parted"
    /\ IF main_i <= Len(rc_part_disks)
       THEN LET d == rc_part_disks[main_i]
                bdisk == Get(bk_disks, d).lay
            IN  IF ~bdisk.labelled
                THEN /\ main_i' = main_i + 1
                     /\ UNCHANGED <<main_pc, cmds>>
                ELSE IF ~Has(facts_disks_live, d)
                THEN /\ main_pc' = Exit1
                     /\ UNCHANGED <<main_i, cmds>>
                ELSE /\ cmds' = cmds \o <<Cmd("clobber", d, "")>> \o Commits(JsonDisk(bdisk), d, 1)
                     /\ main_i' = main_i + 1
                     /\ main_pc' = main_pc
       ELSE /\ main_pc' = Following(main_pc)
            /\ main_i' = 1
            /\ cmds' = cmds
    /\ UNCHANGED rc_part_disks
    /\ UNCHANGED <<pvVars, layVars, mapVars, cmpVars, lvmVars, bkVars, bmVars, rcVars, ptVars, mdVars, dvVars>>

\* md.py 49-153: the mdadm calls of md_check for the captured arrays, when
\* the host has them complete ("same"), has them with members missing
\* ("re-add"), or lacks them ("create"; "RunCMDError" when mdadm --create
\* fails).
RECURSIVE MdCmds(_, _, _)
MdCmds(md, live, a) ==
    IF a > Len(md) THEN <<>>
    ELSE (IF live = "re-add"
          THEN [x \in 1..Len(md[a].v) |-> Cmd("mdadm --re-add", md[a].v[x], md[a].k)]
          ELSE IF live \in {"create", "RunCMDError"}
          THEN [x \in 1..Len(md[a].v) |-> Cmd("mdadm --zero-superblock", md[a].v[x], md[a].k)]
               \o <<Cmd("mdadm --create", None, md[a].k)>>
          ELSE <<>>)
         \o (IF live = "RunCMDError" THEN <<>> ELSE MdCmds(md, live, a + 1))

\* Lines 697-700: md_check when the backup has arrays.
MainMd ==
    /\ main_pc = "md"
    /\ IF md_info # <<>>
       THEN \E live \in {"same", "re-add", "create", "RunCMDError"} :
                /\ cmds' = cmds \o <<Cmd("mdadm --assemble", None, "")>>
                                \o MdCmds(md_info, live, 1)
                /\ main_pc' = IF live = "RunCMDError" THEN Exit1 ELSE Following(main_pc)
       ELSE /\ main_pc' = Following(main_pc)
            /\ cmds' = cmds
    /\ main_i' = 1
    /\ UNCHANGED rc_part_disks
    /\ UNCHANGED <<pvVars, layVars, mapVars, cmpVars, lvmVars, bkVars, bmVars, rcVars, ptVars, mdVars, dvVars>>

\* luks.py 45-71: luks_check opens the container when udev lists it
\* ("open"), restores its header first when not ("restore"), or ends in
\* the RunCMDError of a failed luksOpen.
LuksCmds(dev, type, found) ==
    (IF found = "restore" THEN <<Cmd("luksHeaderRestore", dev, type)>> ELSE <<>>)
    \o <<Cmd("luksOpen", dev, type)>>

\* Lines 703-707 and 716-720: one pass of a loop over self.bk_misc['luks'],
\* for the containers whose type has kind in it.
MainLuksPass(kind) ==
    IF main_i <= Len(luks)
    THEN IF luks[main_i].v.type = kind
         THEN \E found \in {"open", "restore", "RunCMDError"} :
                  /\ cmds' = cmds \o LuksCmds(luks[main_i].k, luks[main_i].v.type, found)
                  /\ main_pc' = IF found = "RunCMDError" THEN Exit1 ELSE main_pc
                  /\ main_i' = main_i + 1
         ELSE /\ main_i' = main_i + 1
              /\ UNCHANGED <<main_pc, cmds>>
    ELSE /\ main_pc' = Following(main_pc)
         /\ main_i' = 1
         /\ cmds' = cmds

MainLuksPart ==
    /\ main_pc = "luks_part"
    /\ MainLuksPass("part")
    /\ UNCHANGED rc_part_disks
    /\ UNCHANGED <<pvVars, layVars, mapVars, cmpVars, lvmVars, bkVars, bmVars, rcVars, ptVars, mdVars, dvVars>>

MainLuksLvm ==
    /\ main_pc = "luks_lvm"
    /\ MainLuksPass("lvm")
    /\ UNCHANGED rc_part_disks
    /\ UNCHANGED <<pvVars, layVars, mapVars, cmpVars, lvmVars, bkVars, bmVars, rcVars, ptVars, mdVars, dvVars>>

\* Lines 709-712: with bk_vgs, RecoveryLVM is constructed on the host as
\* stages 1 to 3 left it: with none of the captured logical volumes or
\* with all of them, and with no physical volume missing or with one
\* missing in every captured group.
MainLvm ==
    /\ main_pc = "lvm"
    /\ lvm_pc = "off"
    /\ IF bk_vgs # <<>>
       THEN /\ host_lvs' \in {<<>>, bk_lvs}
            /\ host_pvs' \in {<<>>, [i \in 1..Len(bk_vgs) |->
                                        [pv_name |-> Unknown, vg_name |-> bk_vgs[i]]]}
            /\ lvm_pc' = "new"
            /\ main_pc' = main_pc
       ELSE /\ main_pc' = Following(main_pc)
            /\ UNCHANGED <<host_lvs, host_pvs, lvm_pc>>
    /\ main_i' = 1
    /\ UNCHANGED <<rc_part_disks, cmds, bk_vgs, bk_lvs, rc_lvm, rc_vgs, lvm_i>>
    /\ UNCHANGED <<pvVars, layVars, mapVars, cmpVars, bkVars, bmVars, rcVars, ptVars, mdVars, dvVars>>

\* Line 713: lvm_check returned.
MainLvmReturned ==
    /\ main_pc = "lvm"
    /\ lvm_pc = "returned"
    /\ main_pc' = Following(main_pc)
    /\ UNCHANGED <<main_i, rc_part_disks, cmds>>
    /\ UNCHANGED <<pvVars, layVars, mapVars, cmpVars, lvmVars, bkVars, bmVars, rcVars, ptVars, mdVars, dvVars>>

\* Lines 712-713: RecoveryLVM raised.
MainLvmRaised ==
    /\ main_pc = "lvm"
    /\ lvm_pc \in {"RunCMDError", "RunCMDError_layout"}
    /\ main_pc' = Exit1
    /\ UNCHANGED <<main_i, rc_part_disks, cmds>>
    /\ UNCHANGED <<pvVars, layVars, mapVars, cmpVars, lvmVars, bkVars, bmVars, rcVars, ptVars, mdVars, dvVars>>

\* Lines 726-729 and 539-542: the device of a mount.
MntDev(m) ==
    IF m.type = "raid" /\ Truthy(m.md_devname) THEN m.md_devname ELSE m.path

\* Lines 724-731 and fs.py 7-79: one pass of the loop over self.bk_mnts:
\* fmt_fs, which ends in ExistsError when the device is not there and in
\* RunCMDError when the command fails.
MainFmt ==
    /\ main_pc = "fmt"
    /\ IF main_i <= Len(bk_mnts)
       THEN LET m == bk_mnts[main_i].v IN
            \E out \in {"ok", "ExistsError", "RunCMDError"} :
                /\ cmds' = IF out = "ExistsError" THEN cmds
                           ELSE Append(cmds, Cmd(IF m.fs_type = "swap" THEN "mkswap"
                                                 ELSE "mkfs", MntDev(m), m.fs_type))
                /\ main_pc' = IF out = "ok" THEN main_pc ELSE Exit1
                /\ main_i' = main_i + 1
       ELSE /\ main_pc' = Following(main_pc)
            /\ main_i' = 1
            /\ cmds' = cmds
    /\ UNCHANGED rc_part_disks
    /\ UNCHANGED <<pvVars, layVars, mapVars, cmpVars, lvmVars, bkVars, bmVars, rcVars, ptVars, mdVars, dvVars>>

\* Lines 739 and 501-549: one pass of the loop of mnt_restored_rootfs; the
\* swaps are skipped, a failed mount ends in MountError.
MainMount ==
    /\ main_pc = "mount"
    /\ IF main_i <= Len(bk_mnts)
       THEN IF bk_mnts[main_i].k = "SWAP-0"
            THEN /\ main_i' = main_i + 1
                 /\ UNCHANGED <<main_pc, cmds>>
            ELSE \E ok \in BOOLEAN :
                     /\ cmds' = Append(cmds, Cmd("mount", MntDev(bk_mnts[main_i].v),
                                                 bk_mnts[main_i].k))
                     /\ main_pc' = IF ok THEN main_pc ELSE Exit1
                     /\ main_i' = main_i + 1
       ELSE /\ main_pc' = Following(main_pc)
            /\ main_i' = 1
            /\ cmds' = cmds
    /\ UNCHANGED rc_part_disks
    /\ UNCHANGED <<pvVars, layVars, mapVars, cmpVars, lvmVars, bkVars, bmVars, rcVars, ptVars, mdVars, dvVars>>

MainNext ==
    \/ MainCmpReturned
    \/ MainCmpRaised
    \/ MainLayout
    \/ MainRecreate
    \/ MainMd
    \/ MainLuksPart
    \/ MainLvm
    \/ MainLvmReturned
    \/ MainLvmRaised
    \/ MainLuksLvm
    \/ MainFmt
    \/ MainMount

MainOff ==
    /\ main_pc = "off"
    /\ main_i = 0
    /\ rc_part_disks = <<>>

----------------------------------------------------------------------------
\* Backup.main, Backup.start and Backup.dump_facts (backup.py 298-360 and
\* 413-524): one run of the backup flow. A file is modelled by its content:
\* 0 when it is missing, FreshContent for what this run writes, any other
\* number for other contents. filecmp.cmpfiles compares contents: the
\* signature (size and mtime) of a file written now differs from that of
\* the reference, so the shallow test never decides.

FactFiles == {"disks.json", "lvm.json", "mnts.json", "misc.json"}

MaxContent == 2

MaxLuks == 2

Contents == 0..MaxContent

\* json.dump of the facts of this run.
FreshContent == 1

\* __init__.py 22-51: the options; backup-only and mkrescue exclude each
\* other.
BmOpts ==
    {o \in [check_facts : BOOLEAN, backup_only : BOOLEAN, mkrescue : BOOLEAN, keep : BOOLEAN] :
        ~(o.backup_only /\ o.mkrescue)}

BmInit ==
    /\ opts \in BmOpts
    /\ lvm_installed \in BOOLEAN
    /\ facts_luks \in 0..MaxLuks
    /\ ref0 \in [FactFiles -> Contents]
    /\ ref = ref0
    /\ tmp_facts = [f \in FactFiles |-> 0]
    /\ tmp_dir = "none"
    /\ mounted = FALSE
    /\ bk_location = "never mounted"
    /\ matched = FALSE
    /\ done = {}
    /\ raised = ""
    /\ bm_i = 0
    /\ exit_status = -1
    /\ bm_pc = "main"

\* Lines 504-513: the except clause of main catches what a step raised.
Raise(step) ==
    /\ bm_pc' = "except"
    /\ raised' = step

\* Lines 129-131 of cleanup: umount when self.mounted.
Umount == bk_location' = IF mounted THEN "unmounted" ELSE bk_location

\* Lines 491-495: mkdtemp.
BmMkdtemp ==
    /\ bm_pc = "main"
    /\ \/ /\ tmp_dir' = "exists"
          /\ bm_pc' = "create_tmp_dirs"
          /\ UNCHANGED raised
       \/ /\ Raise("mkdtemp")
          /\ UNCHANGED tmp_dir
    /\ UNCHANGED <<opts, lvm_installed, facts_luks, ref, ref0, tmp_facts, mounted, bk_location,
                   matched, done, bm_i, exit_status>>
    /\ UNCHANGED <<pvVars, layVars, mapVars, cmpVars, lvmVars, cmds, bkVars, mainVars, rcVars, ptVars, mdVars, dvVars>>

\* Lines 419-422: create_tmp_dirs, then the facts unless backup-only.
BmCreateTmpDirs ==
    /\ bm_pc = "create_tmp_dirs"
    /\ \/ /\ bm_pc' = IF ~opts.backup_only THEN "cmp_mnts_fstab" ELSE "chk_bk_settings"
          /\ UNCHANGED raised
       \/ Raise("create_tmp_dirs")
    /\ UNCHANGED <<opts, lvm_installed, facts_luks, ref, ref0, tmp_facts, tmp_dir, mounted,
                   bk_location, matched, done, bm_i, exit_status>>
    /\ UNCHANGED <<pvVars, layVars, mapVars, cmpVars, lvmVars, cmds, bkVars, mainVars, rcVars, ptVars, mdVars, dvVars>>

\* Line 424 and lines 249-277: cmp_mnts_fstab returns or raises
\* GeneralError.
BmCmpMntsFstab ==
    /\ bm_pc = "cmp_mnts_fstab"
    /\ \/ /\ bm_pc' = "dump_facts"
          /\ UNCHANGED raised
       \/ Raise("cmp_mnts_fstab")
    /\ UNCHANGED <<opts, lvm_installed, facts_luks, ref, ref0, tmp_facts, tmp_dir, mounted,
                   bk_location, matched, done, bm_i, exit_status>>
    /\ UNCHANGED <<pvVars, layVars, mapVars, cmpVars, lvmVars, cmds, bkVars, mainVars, rcVars, ptVars, mdVars, dvVars>>

\* Lines 306-340: get_bk_vgs, cleanup_disks and the four json files; the
\* KeyError of get_bk_vgs or an OSError ends the step.
BmDumpJson ==
    /\ bm_pc = "dump_facts"
    /\ \/ /\ tmp_facts' = [f \in FactFiles |-> FreshContent]
          /\ done' = done \cup {"facts"}
          /\ bm_pc' = "vgcfgbackup"
          /\ UNCHANGED raised
       \/ /\ Raise("dump_facts")
          /\ UNCHANGED <<tmp_facts, done>>
    /\ UNCHANGED <<opts, lvm_installed, facts_luks, ref, ref0, tmp_dir, mounted, bk_location,
                   matched, bm_i, exit_status>>
    /\ UNCHANGED <<pvVars, layVars, mapVars, cmpVars, lvmVars, cmds, bkVars, mainVars, rcVars, ptVars, mdVars, dvVars>>

\* Lines 343-345: vgcfgbackup when lvm is installed; run_cmd raises
\* RunCMDError when it fails.
BmVgcfgbackup ==
    /\ bm_pc = "vgcfgbackup"
    /\ \/ /\ bm_pc' = "copy_facts"
          /\ UNCHANGED raised
       \/ /\ lvm_installed
          /\ Raise("vgcfgbackup")
    /\ UNCHANGED <<opts, lvm_installed, facts_luks, ref, ref0, tmp_facts, tmp_dir, mounted,
                   bk_location, matched, done, bm_i, exit_status>>
    /\ UNCHANGED <<pvVars, layVars, mapVars, cmpVars, lvmVars, cmds, bkVars, mainVars, rcVars, ptVars, mdVars, dvVars>>

\* Line 347: the reference is replaced unless check-facts is set.
CopiesReference_always(o) == TRUE

CopiesReference(o) == ~o.check_facts

\* Lines 347-353: rmtree of the reference and copytree of the fresh facts;
\* a failing copytree leaves the reference removed.
BmCopyFacts ==
    /\ bm_pc = "copy_facts"
    /\ IF CopiesReference(opts)
       THEN \/ /\ ref' = tmp_facts
               /\ bm_pc' = "luks"
               /\ UNCHANGED raised
            \/ /\ ref' = [f \in FactFiles |-> 0]
               /\ Raise("copytree")
       ELSE /\ bm_pc' = "luks"
            /\ UNCHANGED <<ref, raised>>
    /\ bm_i' = 1
    /\ UNCHANGED <<opts, lvm_installed, facts_luks, ref0, tmp_facts, tmp_dir, mounted,
                   bk_location, matched, done, exit_status>>
    /\ UNCHANGED <<pvVars, layVars, mapVars, cmpVars, lvmVars, cmds, bkVars, mainVars, rcVars, ptVars, mdVars, dvVars>>

\* Lines 356-360: one pass of the loop over self.facts.luks:
\* luksHeaderBackup of a container.
BmLuks ==
    /\ bm_pc = "luks"
    /\ IF bm_i > facts_luks
       THEN /\ bm_pc' = "dumped"
            /\ UNCHANGED <<raised, bm_i>>
       ELSE \/ /\ bm_i' = bm_i + 1
               /\ UNCHANGED <<bm_pc, raised>>
            \/ /\ Raise("luksHeaderBackup")
               /\ UNCHANGED bm_i
    /\ UNCHANGED <<opts, lvm_installed, facts_luks, ref, ref0, tmp_facts, tmp_dir, mounted,
                   bk_location, matched, done, exit_status>>
    /\ UNCHANGED <<pvVars, layVars, mapVars, cmpVars, lvmVars, cmds, bkVars, mainVars, rcVars, ptVars, mdVars, dvVars>>

\* Lines 434-435: cmpfiles gives no mismatch and no error when every file
\* of the reference has the content of the fresh one.
NoMismatchNoErrors == \A f \in FactFiles : ref[f] = tmp_facts[f]

\* Lines 429-445: with check-facts the comparison, cleanup and the return
\* of start.
BmCheckFacts ==
    /\ bm_pc = "dumped"
    /\ IF opts.check_facts
       THEN /\ matched' = NoMismatchNoErrors
            /\ done' = done \cup {"compare"}
            /\ Umount
            /\ bm_pc' = "started"
       ELSE /\ bm_pc' = "chk_bk_settings"
            /\ UNCHANGED <<matched, done, bk_location>>
    /\ UNCHANGED <<opts, lvm_installed, facts_luks, ref, ref0, tmp_facts, tmp_dir, mounted,
                   raised, bm_i, exit_status>>
    /\ UNCHANGED <<pvVars, layVars, mapVars, cmpVars, lvmVars, cmds, bkVars, mainVars, rcVars, ptVars, mdVars, dvVars>>

\* Line 449 and lines 57-110: chk_bk_settings mounts the backup location,
\* needs no mount (rsync, iso, usb rescue), or raises.
BmChkBkSettings ==
    /\ bm_pc = "chk_bk_settings"
    /\ \/ /\ mounted' = TRUE
          /\ bk_location' = "mounted"
          /\ bm_pc' = "rescue"
          /\ UNCHANGED raised
       \/ /\ bm_pc' = "rescue"
          /\ UNCHANGED <<mounted, bk_location, raised>>
       \/ /\ Raise("chk_bk_settings")
          /\ UNCHANGED <<mounted, bk_location>>
    /\ UNCHANGED <<opts, lvm_installed, facts_luks, ref, ref0, tmp_facts, tmp_dir, matched,
                   done, bm_i, exit_status>>
    /\ UNCHANGED <<pvVars, layVars, mapVars, cmpVars, lvmVars, cmds, bkVars, mainVars, rcVars, ptVars, mdVars, dvVars>>

\* Lines 451-461: the rescue medium unless backup-only.
BmRescue ==
    /\ bm_pc = "rescue"
    /\ IF ~opts.backup_only
       THEN \/ /\ done' = done \cup {"rescue"}
               /\ bm_pc' = "backup"
               /\ UNCHANGED raised
            \/ /\ Raise("rescue")
               /\ UNCHANGED done
       ELSE /\ bm_pc' = "backup"
            /\ UNCHANGED <<done, raised>>
    /\ UNCHANGED <<opts, lvm_installed, facts_luks, ref, ref0, tmp_facts, tmp_dir, mounted,
                   bk_location, matched, bm_i, exit_status>>
    /\ UNCHANGED <<pvVars, layVars, mapVars, cmpVars, lvmVars, cmds, bkVars, mainVars, rcVars, ptVars, mdVars, dvVars>>

\* Lines 463-480: the backup unless mkrescue, then cleanup and the return
\* of start.
BmBackup ==
    /\ bm_pc = "backup"
    /\ IF ~opts.mkrescue
       THEN \/ /\ done' = done \cup {"backup"}
               /\ Umount
               /\ bm_pc' = "started"
               /\ UNCHANGED raised
            \/ /\ Raise("backup")
               /\ UNCHANGED <<done, bk_location>>
       ELSE /\ Umount
            /\ bm_pc' = "started"
            /\ UNCHANGED <<done, raised>>
    /\ UNCHANGED <<opts, lvm_installed, facts_luks, ref, ref0, tmp_facts, tmp_dir, mounted,
                   matched, bm_i, exit_status>>
    /\ UNCHANGED <<pvVars, layVars, mapVars, cmpVars, lvmVars, cmds, bkVars, mainVars, rcVars, ptVars, mdVars, dvVars>>

\* Lines 502-503 and 516-524: start returned; rmtree of the scratch
\* directory unless keep, then the exit status.
BmFinish ==
    /\ bm_pc = "started"
    /\ \/ /\ tmp_dir' = IF ~opts.keep THEN "removed" ELSE tmp_dir
          /\ exit_status' = IF opts.check_facts /\ ~matched THEN 1 ELSE 0
          /\ bm_pc' = "exited"
          /\ UNCHANGED raised
       \/ /\ ~opts.keep
          /\ Raise("rmtree")
          /\ UNCHANGED <<tmp_dir, exit_status>>
    /\ UNCHANGED <<opts, lvm_installed, facts_luks, ref, ref0, tmp_facts, mounted, bk_location,
                   matched, done, bm_i>>
    /\ UNCHANGED <<pvVars, layVars, mapVars, cmpVars, lvmVars, cmds, bkVars, mainVars, rcVars, ptVars, mdVars, dvVars>>

\* Lines 504-513: chdir, cleanup(error=1) and exit(1).
BmExcept ==
    /\ bm_pc = "except"
    /\ Umount
    /\ exit_status' = 1
    /\ bm_pc' = "exited"
    /\ UNCHANGED <<opts, lvm_installed, facts_luks, ref, ref0, tmp_facts, tmp_dir, mounted,
                   matched, done, raised, bm_i>>
    /\ UNCHANGED <<pvVars, layVars, mapVars, cmpVars, lvmVars, cmds, bkVars, mainVars, rcVars, ptVars, mdVars, dvVars>>

BmNext ==
    \/ BmMkdtemp
    \/ BmCreateTmpDirs
    \/ BmCmpMntsFstab
    \/ BmDumpJson
    \/ BmVgcfgbackup
    \/ BmCopyFacts
    \/ BmLuks
    \/ BmCheckFacts
    \/ BmChkBkSettings
    \/ BmRescue
    \/ BmBackup
    \/ BmFinish
    \/ BmExcept

BmOff ==
    /\ opts = [check_facts |-> FALSE, backup_only |-> FALSE, mkrescue |-> FALSE, keep |-> FALSE]
    /\ lvm_installed = FALSE
    /\ facts_luks = 0
    /\ ref0 = [f \in FactFiles |-> 0]
    /\ ref = ref0
    /\ tmp_facts = [f \in FactFiles |-> 0]
    /\ tmp_dir = "none"
    /\ mounted = FALSE
    /\ bk_location = "never mounted"
    /\ matched = FALSE
    /\ done = {}
    /\ raised = ""
    /\ bm_i = 0
    /\ exit_status = -1
    /\ bm_pc = "off"

\* C13: with check-facts set the reference under /var/lib/pbr/facts is
\* never changed, on the match path, the mismatch path and every error
\* path.
C13_CheckFactsKeepsReference == opts.check_facts => ref = ref0

\* C13 witness: a check-facts run found a reference that differs from the
\* fresh facts, compared them and exited.
C13_Witness ==
    /\ opts.check_facts
    /\ bm_pc = "exited"
    /\ "compare" \in done
    /\ ~matched
    /\ exit_status = 1

\* C14: a check-facts run in which no step raised has collected the facts
\* and compared them, has made no rescue medium and no backup, and exits
\* with 0 exactly when the four files of the reference were identical to
\* the fresh ones.
C14_CheckFactsExitStatus ==
    (opts.check_facts /\ bm_pc = "exited" /\ raised = "") =>
        /\ "facts" \in done
        /\ "compare" \in done
        /\ "rescue" \notin done
        /\ "backup" \notin done
        /\ exit_status = 0 <=> \A f \in FactFiles : ref0[f] = FreshContent

\* C15: when main has exited the backup location is not mounted, and the
\* scratch directory main created still exists exactly when keep was
\* requested.
C15_BackupCleanup ==
    bm_pc = "exited" =>
        /\ bk_location # "mounted"
        /\ tmp_dir # "none" => (tmp_dir = "exists" <=> opts.keep)

\* C18: when a probe, vgcfgbackup or the header dump of a container raised
\* in dump_facts, the reference is as it was before the run.
C18_FactsAllOrNothing ==
    raised \in {"dump_facts", "vgcfgbackup", "luksHeaderBackup"} => ref = ref0

----------------------------------------------------------------------------
\* Recover.main, from its first statement to the exit: which statements are
\* inside the try block, what the except clause does, and when cleanup runs.
\* Each step either completes or raises (an error of a command, or the
\* KeyboardInterrupt of the operator); what the steps do to the disks is the
\* subject of SpecMain.

LocationTypes == {"nfs", "rsync", "iso"}

RcOpts ==
    [restore_only : BOOLEAN, backup_archive : BOOLEAN, bk_location_type : LocationTypes,
     rc_post_script : BOOLEAN]

\* The statements of the try block of main, in order.
TrySteps(o) ==
    (IF ~o.restore_only
        THEN <<"cmp_disks", "deactivate_vgs", "cmp_disk_layout", "recreate_disk", "md_check",
               "luks_check part", "lvm_check", "luks_check lvm", "fmt_fs">>
        ELSE <<"cmp_disks">>)
    \o <<"mnt_restored_rootfs">>
    \o (IF o.bk_location_type = "rsync" THEN <<"rsync">> ELSE <<"restore_tar">>)
    \o <<"restore_bootloader", "selinux_check", "chmod">>

RcInit ==
    /\ rc_opts \in RcOpts
    /\ bk_mounted = FALSE
    /\ rc_bk_mount = "never mounted"
    /\ rc_cleanups = 0
    /\ rc_failed = ""
    /\ rc_exit = -1
    /\ rc_i = 1
    /\ rc_pc = "umount_active_mnts"

\* An exception no except clause of main catches: the interpreter prints
\* the traceback and ends with status 1, or with 130 when the exception is
\* the KeyboardInterrupt of a SIGINT.
UncaughtStatus == {1, 130}

Uncaught(step) ==
    /\ rc_failed' = step
    /\ rc_exit' \in UncaughtStatus
    /\ rc_pc' = "exited"
    /\ UNCHANGED <<rc_opts, bk_mounted, rc_bk_mount, rc_cleanups, rc_i>>

\* cleanup: umount of the backup location when bk_mounted is set.
RcCleanup ==
    /\ rc_cleanups' = rc_cleanups + 1
    /\ rc_bk_mount' = IF bk_mounted THEN "unmounted" ELSE rc_bk_mount

\* Line 657.
RcUmountActiveMnts ==
    /\ rc_pc = "umount_active_mnts"
    /\ \/ /\ rc_pc' = "mnt_bk_mount"
          /\ UNCHANGED <<rc_opts, bk_mounted, rc_bk_mount, rc_cleanups, rc_failed, rc_exit, rc_i>>
       \/ Uncaught("umount_active_mnts")
    /\ UNCHANGED <<pvVars, layVars, mapVars, cmpVars, lvmVars, cmds, bkVars, mainVars, bmVars, ptVars, mdVars, dvVars>>

\* Line 660: the location is mounted unless an archive was named, the
\* medium is the live image, or the backup is read over rsync.
RcMntBkMount ==
    /\ rc_pc = "mnt_bk_mount"
    /\ IF ~rc_opts.backup_archive /\ rc_opts.bk_location_type = "nfs"
          THEN \/ /\ bk_mounted' = TRUE
                  /\ rc_bk_mount' = "mounted"
                  /\ rc_pc' = "handle_disk_excludes"
                  /\ UNCHANGED <<rc_opts, rc_cleanups, rc_failed, rc_exit, rc_i>>
               \/ Uncaught("mnt_bk_mount")
          ELSE /\ rc_pc' = "handle_disk_excludes"
               /\ UNCHANGED <<rc_opts, bk_mounted, rc_bk_mount, rc_cleanups, rc_failed,
                              rc_exit, rc_i>>
    /\ UNCHANGED <<pvVars, layVars, mapVars, cmpVars, lvmVars, cmds, bkVars, mainVars, bmVars, ptVars, mdVars, dvVars>>

\* Line 663, before the try statement.
RcHandleDiskExcludes ==
    /\ rc_pc = "handle_disk_excludes"
    /\ \/ /\ rc_pc' = "handle_vg_excludes"
          /\ UNCHANGED <<rc_opts, bk_mounted, rc_bk_mount, rc_cleanups, rc_failed, rc_exit, rc_i>>
       \/ Uncaught("handle_disk_excludes")
    /\ UNCHANGED <<pvVars, layVars, mapVars, cmpVars, lvmVars, cmds, bkVars, mainVars, bmVars, ptVars, mdVars, dvVars>>

\* Line 664, before the try statement.
RcHandleVgExcludes ==
    /\ rc_pc = "handle_vg_excludes"
    /\ \/ /\ rc_pc' = "try"
          /\ UNCHANGED <<rc_opts, bk_mounted, rc_bk_mount, rc_cleanups, rc_failed, rc_exit, rc_i>>
       \/ Uncaught("handle_vg_excludes")
    /\ UNCHANGED <<pvVars, layVars, mapVars, cmpVars, lvmVars, cmds, bkVars, mainVars, bmVars, ptVars, mdVars, dvVars>>

\* Lines 666-780: the next statement of the try block completes or raises.
RcTryStep ==
    /\ rc_pc = "try"
    /\ rc_i <= Len(TrySteps(rc_opts))
    /\ \/ /\ rc_i' = rc_i + 1
          /\ UNCHANGED <<rc_failed, rc_pc>>
       \/ /\ rc_failed' = TrySteps(rc_opts)[rc_i]
          /\ rc_pc' = "except"
          /\ UNCHANGED rc_i
    /\ UNCHANGED <<rc_opts, bk_mounted, rc_bk_mount, rc_cleanups, rc_exit>>
    /\ UNCHANGED <<pvVars, layVars, mapVars, cmpVars, lvmVars, cmds, bkVars, mainVars, bmVars, ptVars, mdVars, dvVars>>

\* Lines 782-788: cleanup, then exit(1).
RcExcept ==
    /\ rc_pc = "except"
    /\ RcCleanup
    /\ rc_exit' = 1
    /\ rc_pc' = "exited"
    /\ UNCHANGED <<rc_opts, bk_mounted, rc_failed, rc_i>>
    /\ UNCHANGED <<pvVars, layVars, mapVars, cmpVars, lvmVars, cmds, bkVars, mainVars, bmVars, ptVars, mdVars, dvVars>>

\* Line 790: the try block completed.
RcCleanupAfterTry ==
    /\ rc_pc = "try"
    /\ rc_i > Len(TrySteps(rc_opts))
    /\ RcCleanup
    /\ rc_pc' = "post"
    /\ UNCHANGED <<rc_opts, bk_mounted, rc_failed, rc_exit, rc_i>>
    /\ UNCHANGED <<pvVars, layVars, mapVars, cmpVars, lvmVars, cmds, bkVars, mainVars, bmVars, ptVars, mdVars, dvVars>>

\* Lines 792-800: the post scripts, outside the try block, then exit(0).
RcPostAndExit ==
    /\ rc_pc = "post"
    /\ \/ /\ rc_exit' = 0
          /\ rc_pc' = "exited"
          /\ UNCHANGED <<rc_opts, bk_mounted, rc_bk_mount, rc_cleanups, rc_failed, rc_i>>
       \/ /\ rc_opts.rc_post_script
          /\ Uncaught("rc_post_script")
    /\ UNCHANGED <<pvVars, layVars, mapVars, cmpVars, lvmVars, cmds, bkVars, mainVars, bmVars, ptVars, mdVars, dvVars>>

RcNext ==
    \/ RcUmountActiveMnts
    \/ RcMntBkMount
    \/ RcHandleDiskExcludes
    \/ RcHandleVgExcludes
    \/ RcTryStep
    \/ RcExcept
    \/ RcCleanupAfterTry
    \/ RcPostAndExit

RcOff ==
    /\ rc_opts = [restore_only |-> FALSE, backup_archive |-> FALSE, bk_location_type |-> "nfs",
                  rc_post_script |-> FALSE]
    /\ bk_mounted = FALSE
    /\ rc_bk_mount = "never mounted"
    /\ rc_cleanups = 0
    /\ rc_failed = ""
    /\ rc_exit = -1
    /\ rc_i = 0
    /\ rc_pc = "off"

\* The steps the claim names: everything after the mount of the backup
\* location up to the bootloader handoff.
LaterSteps ==
    {"handle_disk_excludes", "handle_vg_excludes", "cmp_disks", "deactivate_vgs",
     "cmp_disk_layout", "recreate_disk", "md_check", "luks_check part", "lvm_check",
     "luks_check lvm", "fmt_fs", "mnt_restored_rootfs", "rsync", "restore_tar",
     "restore_bootloader"}

\* C16: once main has mounted the backup location, a failure of a later
\* step ends in exactly one cleanup, the location unmounted and status 1;
\* status 0 is reached only with no failed step, after exactly one cleanup.
C16_RestoreTermination ==
    (rc_pc = "exited" /\ rc_bk_mount # "never mounted") =>
        /\ rc_failed \in LaterSteps =>
               (rc_cleanups = 1 /\ rc_bk_mount = "unmounted" /\ rc_exit = 1)
        /\ rc_exit = 0 => (rc_failed = "" /\ rc_cleanups = 1)

----------------------------------------------------------------------------
\* Recover.mnt_restored_rootfs on its own (recover.py 501-549): the loop of
\* MainMount over a mounts file whose entries come in any order.

\* The mount points of the tree, in ascending path order.
TreePaths == <<"/", "/boot", "/boot/efi", "/home">>

MaxMnts == 4

\* The entries a mounts file may hold: the tree on the partitions of
\* /dev/sda, and the swap.
TreeMnts ==
    {Mnt(TreePaths[n], PartPath(SDA, n), SDA, "part", "xfs", None, None)[1] :
        n \in 1..Len(TreePaths)}
    \cup {Mnt("SWAP-0", PartPath(SDA, 5), SDA, "part", "swap", None, None)[1]}

\* The files with at most MaxMnts entries, no mount point twice, in any
\* order: json.load keeps the order of the file.
MntFiles ==
    UNION {{f \in [1..n -> TreeMnts] : \A i, j \in 1..n : f[i].k = f[j].k => i = j} :
              n \in 0..MaxMnts}

MountInit ==
    /\ bk_mnts \in MntFiles
    /\ bk_disks = <<>>
    /\ tmp_mapped_disks = <<>>
    /\ lst_mapped_mps = <<>>
    /\ md_info = <<>>
    /\ luks = <<>>
    /\ PVS = <<>>
    /\ luks_files = {}
    /\ orig = <<>>
    /\ pre = <<>>
    /\ map_calls = <<>>
    /\ map_err = "off"
    /\ cmds = <<>>
    /\ main_pc = "mount"
    /\ main_i = 1
    /\ rc_part_disks = <<>>

PathRank(mp) == CHOOSE i \in 1..Len(TreePaths) : TreePaths[i] = mp

\* The mount point child lies beneath the mount point parent.
Beneath(child, parent) ==
    \/ parent = "/" /\ child # "/"
    \/ parent = "/boot" /\ child = "/boot/efi"

\* C17: the mounts are made in ascending path order, so a mount point is
\* mounted before every mount point beneath it, and no swap is mounted.
C17_MountTreeOrder ==
    /\ \A i \in 1..Len(cmds) : cmds[i].tag # "SWAP-0"
    /\ \A i \in 1..(Len(cmds) - 1) : PathRank(cmds[i].tag) < PathRank(cmds[i + 1].tag)
    /\ \A i \in 1..(Len(cmds) - 1) : ~Beneath(cmds[i].tag, cmds[i + 1].tag)

----------------------------------------------------------------------------
\* Parted.recreate_disk (parted.py 316-339) with Parted.add_partition
\* (167-224), on its own: the captured record of one disk is restored on
\* /dev/sda. The commands are logged in cmds: clobber, then addPartition
\* with the partition, and commit with the disk.

PtInit ==
    /\ pt_bdisk \in {JsonDisk(d) : d \in ProbedDisks}
    /\ pt_i = 1
    /\ pt_pc = "start"
    /\ cmds = <<>>

\* Lines 326-330: init_disk when the record has a partition table type.
PtInitDisk ==
    /\ pt_pc = "start"
    /\ IF Has(pt_bdisk, K_type)
       THEN /\ cmds' = Append(cmds, Cmd("clobber", SDA, ""))
            /\ pt_pc' = "adding"
       ELSE /\ pt_pc' = "skipped"
            /\ cmds' = cmds
    /\ UNCHANGED <<pt_bdisk, pt_i>>
    /\ UNCHANGED <<pvVars, layVars, mapVars, cmpVars, lvmVars, bkVars, mainVars, bmVars, rcVars, mdVars,
                   dvVars>>

\* What add_partition does to the table: addPartition and commit of lines
\* 215-216, either of which may raise the IOException of line 220.
AddPartitionCmds(part, out) ==
    IF out = "addPartition IOException" THEN <<>>
    ELSE IF out = "commit IOException" THEN <<Cmd("addPartition", part, "")>>
    ELSE <<Cmd("addPartition", part, ""), Cmd("commit", SDA, "")>>

\* Lines 334-337: one pass of the loop over bdisk.items(). A partition
\* captured without its geometry ends the call with KeyError.
PtAddPartition ==
    /\ pt_pc = "adding"
    /\ pt_i <= Len(pt_bdisk)
    /\ IF ~IsNumeric(pt_bdisk[pt_i].k)
       THEN UNCHANGED <<pt_pc, cmds>>
       ELSE IF "start" \notin DOMAIN pt_bdisk[pt_i].v
       THEN /\ pt_pc' = "KeyError"
            /\ cmds' = cmds
       ELSE \E out \in {"ok", "addPartition IOException", "commit IOException"} :
                /\ cmds' = cmds \o AddPartitionCmds(PartPath(SDA, ToInt(pt_bdisk[pt_i].k)), out)
                /\ pt_pc' = pt_pc
    /\ pt_i' = pt_i + 1
    /\ UNCHANGED pt_bdisk
    /\ UNCHANGED <<pvVars, layVars, mapVars, cmpVars, lvmVars, bkVars, mainVars, bmVars, rcVars, mdVars,
                   dvVars>>

\* Line 339: removeFromCache after the loop.
PtReturn ==
    /\ pt_pc = "adding"
    /\ pt_i > Len(pt_bdisk)
    /\ pt_pc' = "returned"
    /\ UNCHANGED <<pt_bdisk, pt_i, cmds>>
    /\ UNCHANGED <<pvVars, layVars, mapVars, cmpVars, lvmVars, bkVars, mainVars, bmVars, rcVars, mdVars,
                   dvVars>>

PtNext == PtInitDisk \/ PtAddPartition \/ PtReturn

PtOff ==
    /\ pt_bdisk = <<>>
    /\ pt_i = 0
    /\ pt_pc = "off"

\* The partition number of an addPartition command.
AddedNumber(c) == ToInt(TrailingDigits(c.dev))

\* C22: recreate_disk adds the partitions in ascending number order and
\* commits the table only after the last add: no commit is followed by an
\* add on the same disk.
C22_CommitAfterAdds ==
    \A i, j \in 1..Len(cmds) :
        i < j =>
            /\ (cmds[i].op = "addPartition" /\ cmds[j].op = "addPartition")
                   => AddedNumber(cmds[i]) < AddedNumber(cmds[j])
            /\ cmds[i].op = "commit" => cmds[j].op # "addPartition"

----------------------------------------------------------------------------
\* md_check with md_create and md_re_add (md.py 49-153), on its own. The
\* captured arrays are md0 and md1; the host may also run md9, which is not
\* in the backup. An array of the host is the set of its members, empty
\* when the array is not there.

MaxRc == 1

\* The return codes of a command: 0 and the failures.
Rcs == 0..MaxRc

MdNames == {"md0", "md1", "md9"}

MdDevs(name) ==
    CASE name = "md0" -> <<Basename(PartPath(SDA, 1)), Basename(PartPath(SDB, 1))>>
      [] name = "md1" -> <<Basename(PartPath(SDA, 2)), Basename(PartPath(SDB, 2))>>
      [] OTHER -> <<Basename(PartPath(SDC, 1))>>

Range(seq) == {seq[i] : i \in 1..Len(seq)}

\* bk_md_info of the backups with md0, md1 or both.
BkMdInfos ==
    {<<[k |-> "md0", v |-> MdDevs("md0")]>>,
     <<[k |-> "md1", v |-> MdDevs("md1")]>>,
     <<[k |-> "md0", v |-> MdDevs("md0")], [k |-> "md1", v |-> MdDevs("md1")]>>}

MdInit ==
    /\ md_info \in BkMdInfos
    /\ md_host \in {h \in [MdNames -> SUBSET (UNION {Range(MdDevs(n)) : n \in MdNames})] :
                       \A n \in MdNames : h[n] \subseteq Range(MdDevs(n))}
    /\ facts_md_info = [n \in MdNames |-> {}]
    /\ md_work = {}
    /\ md_log = <<>>
    /\ md_pc = "start"
    /\ bk_disks = <<>>
    /\ tmp_mapped_disks = <<>>
    /\ bk_mnts = <<>>
    /\ lst_mapped_mps = <<>>
    /\ luks = <<>>
    /\ PVS = <<>>
    /\ luks_files = {}
    /\ orig = <<>>
    /\ pre = <<>>
    /\ map_calls = <<>>
    /\ map_err = "off"

MdCmd(op, name, dev, rc) == [op |-> op, name |-> name, dev |-> dev, rc |-> rc]

\* The names of the arrays a snapshot of the host has.
Running(h) == {n \in MdNames : h[n] # {}}

\* Lines 63-70: mdadm --assemble --scan, whose return code is only logged,
\* then get_md_info.
MdAssemble ==
    /\ md_pc = "start"
    /\ \E rc \in Rcs : md_log' = Append(md_log, MdCmd("--assemble", "", <<>>, rc))
    /\ facts_md_info' = md_host
    /\ md_pc' = "compare"
    /\ UNCHANGED <<md_host, md_work>>
    /\ UNCHANGED <<pvVars, layVars, mapVars, cmpVars, lvmVars, cmds, bkVars, mainVars, bmVars, rcVars,
                   ptVars, dvVars>>

\* Lines 76-83: the members to re-add, for the arrays whose member counts
\* differ: (index of the array in bk_md_info, member).
ReAddWork ==
    {<<a, d>> \in (1..Len(md_info)) \X UNION {Range(MdDevs(n)) : n \in MdNames} :
        /\ Cardinality(Range(md_info[a].v)) # Cardinality(facts_md_info[md_info[a].k])
        /\ d \in Range(md_info[a].v) \ facts_md_info[md_info[a].k]}

\* Lines 72 and 85-90: the test of the key sets, and diff.
MdCompare ==
    /\ md_pc = "compare"
    /\ IF KeySet(md_info) = Running(facts_md_info)
       THEN /\ md_pc' = "re-add"
            /\ md_work' = ReAddWork
       ELSE IF KeySet(md_info) \ Running(facts_md_info) = {}
       THEN /\ md_pc' = "returned"
            /\ md_work' = {}
       ELSE /\ md_pc' = "stop"
            /\ md_work' = KeySet(md_info) \ Running(facts_md_info)
    /\ UNCHANGED <<md_host, facts_md_info, md_log>>
    /\ UNCHANGED <<pvVars, layVars, mapVars, cmpVars, lvmVars, cmds, bkVars, mainVars, bmVars, rcVars,
                   ptVars, dvVars>>

\* An add that follows every re-add.
AddAfter_always(rc) == TRUE

\* Line 151: the add follows a re-add that returned nonzero.
AddAfter(rc) == rc # 0

\* Lines 82-83 and 139-153: md_re_add for the next member, in the order of
\* bk_md_info; the members of one array come in the order of a set.
MdReAdd ==
    /\ md_pc = "re-add"
    /\ \E w \in md_work :
        /\ \A x \in md_work : w[1] <= x[1]
        /\ LET name == md_info[w[1]].k IN
           \E rc \in Rcs :
              IF AddAfter(rc)
              THEN \E rc2 \in Rcs :
                      /\ md_log' = md_log \o <<MdCmd("--re-add", name, w[2], rc),
                                               MdCmd("--add", name, w[2], rc2)>>
                      /\ md_pc' = IF rc2 # 0 THEN "RunCMDError" ELSE md_pc
                      /\ md_host' = IF rc2 # 0 THEN md_host
                                    ELSE [md_host EXCEPT ![name] = @ \cup {w[2]}]
              ELSE /\ md_log' = Append(md_log, MdCmd("--re-add", name, w[2], rc))
                   /\ md_pc' = md_pc
                   /\ md_host' = IF rc # 0 THEN md_host
                                 ELSE [md_host EXCEPT ![name] = @ \cup {w[2]}]
        /\ md_work' = md_work \ {w}
    /\ UNCHANGED facts_md_info
    /\ UNCHANGED <<pvVars, layVars, mapVars, cmpVars, lvmVars, cmds, bkVars, mainVars, bmVars, rcVars,
                   ptVars, dvVars>>

\* Lines 93-101: mdadm --stop of every /dev/md* of the host, when there is
\* one.
MdStop ==
    /\ md_pc = "stop"
    /\ IF Running(md_host) = {}
       THEN /\ md_pc' = "create"
            /\ UNCHANGED <<md_host, md_log>>
       ELSE \E rc \in Rcs :
               /\ md_log' = Append(md_log, MdCmd("--stop", "", <<>>, rc))
               /\ md_host' = IF rc = 0 THEN [n \in MdNames |-> {}] ELSE md_host
               /\ md_pc' = IF rc = 0 THEN "create" ELSE "RunCMDError"
    /\ UNCHANGED <<facts_md_info, md_work>>
    /\ UNCHANGED <<pvVars, layVars, mapVars, cmpVars, lvmVars, cmds, bkVars, mainVars, bmVars, rcVars,
                   ptVars, dvVars>>

\* Lines 103-109 and 112-136: md_create for an array of diff, in the order
\* of a set. exists(d) tests the bare member name, a path relative to the
\* working directory, so the superblocks are zeroed only when it has such
\* files.
MdCreate ==
    /\ md_pc = "create"
    /\ \E x \in md_work : \E zero \in BOOLEAN : \E rc \in Rcs :
        LET devs == Get(md_info, x)
            zeros == IF zero
                     THEN [i \in 1..Len(devs) |-> MdCmd("--zero-superblock", x, devs[i], 0)]
                     ELSE <<>>
        IN  /\ md_log' = md_log \o zeros \o <<MdCmd("--create", x, <<>>, rc)>>
            /\ md_host' = IF rc = 0 THEN [md_host EXCEPT ![x] = Range(devs)] ELSE md_host
            /\ md_pc' = IF rc = 0 THEN md_pc ELSE "RunCMDError"
            /\ md_work' = md_work \ {x}
    /\ UNCHANGED facts_md_info
    /\ UNCHANGED <<pvVars, layVars, mapVars, cmpVars, lvmVars, cmds, bkVars, mainVars, bmVars, rcVars,
                   ptVars, dvVars>>

\* The loop md_check is in has no entry left.
MdReturn ==
    /\ md_pc \in {"re-add", "create"}
    /\ md_work = {}
    /\ md_pc' = "returned"
    /\ UNCHANGED <<md_host, facts_md_info, md_work, md_log>>
    /\ UNCHANGED <<pvVars, layVars, mapVars, cmpVars, lvmVars, cmds, bkVars, mainVars, bmVars, rcVars,
                   ptVars, dvVars>>

MdNext == MdAssemble \/ MdCompare \/ MdReAdd \/ MdStop \/ MdCreate \/ MdReturn

MdOff ==
    /\ md_host = <<>>
    /\ facts_md_info = <<>>
    /\ md_work = {}
    /\ md_log = <<>>
    /\ md_pc = "off"

\* The captured array a was on the host with some, but not all, of its
\* captured members when md_check looked.
Degraded(a) ==
    /\ facts_md_info[md_info[a].k] # {}
    /\ facts_md_info[md_info[a].k] \subseteq Range(md_info[a].v)
    /\ facts_md_info[md_info[a].k] # Range(md_info[a].v)

\* C23: when md_check has returned, a re-add was issued for every missing
\* member of every captured array the host had with a strict subset of its
\* captured members, whatever the state of the other arrays.
C23_DegradedRepaired ==
    md_pc = "returned" =>
        \A a \in 1..Len(md_info) :
            Degraded(a) =>
                \A d \in Range(md_info[a].v) \ facts_md_info[md_info[a].k] :
                    \E i \in 1..Len(md_log) :
                        md_log[i].op = "--re-add" /\ md_log[i].name = md_info[a].k
                        /\ md_log[i].dev = d

\* Entry i of the log is an add of the member the entry before it re-added.
AddOfPrevious(i) ==
    /\ i > 1
    /\ md_log[i].op = "--add"
    /\ md_log[i - 1].op = "--re-add"
    /\ md_log[i - 1].name = md_log[i].name
    /\ md_log[i - 1].dev = md_log[i].dev

\* C24: an add is issued for a member if and only if its re-add returned
\* nonzero, once and right after the re-add; a failing add is the last
\* command and ends md_check with RunCMDError.
C24_AddIffReAddFailed ==
    \A i \in 1..Len(md_log) :
        /\ md_log[i].op = "--re-add" =>
              (md_log[i].rc # 0 <=> (i < Len(md_log) /\ AddOfPrevious(i + 1)))
        /\ md_log[i].op = "--add" =>
              /\ AddOfPrevious(i)
              /\ md_log[i - 1].rc # 0
              /\ \A j \in 1..Len(md_log) :
                    (md_log[j].op = "--add" /\ md_log[j].name = md_log[i].name
                     /\ md_log[j].dev = md_log[i].dev) => j = i
              /\ md_log[i].rc # 0 => (i = Len(md_log) /\ md_pc = "RunCMDError")

\* C24 witness: md_check returned after a re-add that succeeded and a
\* re-add that failed and was followed by a successful add.
C24_Witness ==
    /\ md_pc = "returned"
    /\ \E i \in 1..Len(md_log) : md_log[i].op = "--re-add" /\ md_log[i].rc = 0
    /\ \E i \in 1..Len(md_log) :
          md_log[i].op = "--add" /\ md_log[i].rc = 0 /\ md_log[i - 1].rc # 0

\* A failing add ended md_check.
C24_WitnessFatal ==
    /\ md_pc = "RunCMDError"
    /\ Len(md_log) > 0
    /\ md_log[Len(md_log)].op = "--add"

\* C29: when md_check has returned, every captured array is running on the
\* host.
C29_CapturedRunning ==
    md_pc = "returned" => \A a \in 1..Len(md_info) : md_host[md_info[a].k] # {}

----------------------------------------------------------------------------
\* deactivate_vgs (lvm.py 17-31), on its own: one call, for every return
\* code and stderr of vgchange -an. The stderr is a sequence of phrases.

MaxDvRc == 3

MaxStderr == 2

OpenLv == "open logical volume"

StderrPhrases == {"Can't deactivate volume group", OpenLv, "Volume group not found", "(s)"}

DvInit ==
    /\ dv_rc \in 0..MaxDvRc
    /\ dv_stderr \in UNION {[1..n -> StderrPhrases] : n \in 0..MaxStderr}
    /\ dv_out = "none"

\* The failure is fatal for every reason but the open logical volume.
RaisesOn_other(stderr) == ~In(OpenLv, stderr)

\* Line 26: "open logical volume" in stderr.
RaisesOn(stderr) == In(OpenLv, stderr)

\* Lines 23-31.
DeactivateVgs ==
    /\ dv_out = "none"
    /\ dv_out' = IF dv_rc = 0 THEN "returned"
                 ELSE IF RaisesOn(dv_stderr) THEN "RunCMDError"
                 ELSE "warned"
    /\ UNCHANGED <<dv_rc, dv_stderr>>
    /\ UNCHANGED <<pvVars, layVars, mapVars, cmpVars, lvmVars, cmds, bkVars, mainVars, bmVars, rcVars,
                   ptVars, mdVars>>

DvOff ==
    /\ dv_rc = 0
    /\ dv_stderr = <<>>
    /\ dv_out = "off"

C25_WitnessWarned ==
    /\ dv_rc # 0
    /\ dv_stderr = <<"Volume group not found">>
    /\ dv_out = "warned"

----------------------------------------------------------------------------
\* The claims about lvm_check, get_bk_vgs and main.

\* The host has exactly the captured logical volumes of the group, and a
\* comparison with the host as it is now accepts the group.
HostHasCaptured(vg) ==
    /\ RowsOf(host_lvs, vg) = RowsOf(bk_lvs, vg)
    /\ MatchingFrom(bk_lvs, host_lvs, vg, 1, 0, 0)

\* No command of lvm_check failed: none raised, and no pvremove was
\* followed by the vgchange -an of line 107.
NoLvmCmdFailed ==
    /\ lvm_pc # "RunCMDError"
    /\ \A i \in 1..Len(cmds) - 1 :
        cmds[i].op = "pvremove" => cmds[i + 1].op # "vgchange -an"

\* The group did not match the report taken before the restore, was
\* restored and activated, and the host now has its captured layout.
RestoredAndActivated(vg) ==
    /\ lvm_pc \notin {"off", "new"}
    /\ ~MatchingFrom(bk_lvs, rc_lvm.LVS, vg, 1, 0, 0)
    /\ NoLvmCmdFailed
    /\ \E i \in 1..Len(cmds) : cmds[i].op = "vgcfgrestore" /\ cmds[i].tag = vg
    /\ \E i \in 1..Len(cmds) : cmds[i].op = "vgchange -ay" /\ cmds[i].tag = vg
    /\ HostHasCaptured(vg)

\* C8: when a volume group of the list did not match before the restore,
\* and pvremove, pvcreate, vgcfgrestore and vgchange -ay succeeded and left
\* the host with exactly its captured logical volumes, the check after the
\* activation accepts the group: lvm_check does not raise for it.
C8_VerifiedAfterRestore ==
    \A i \in 1..Len(bk_vgs) :
        RestoredAndActivated(bk_vgs[i]) => ~(lvm_pc = "RunCMDError_layout" /\ lvm_i = i)

\* C9: pvremove, pvcreate and vgcfgrestore are issued only for volume
\* groups of the list lvm_check was given.
C9_OnlyListedVgs ==
    \A i \in 1..Len(cmds) :
        cmds[i].op \in {"pvremove", "pvcreate", "vgcfgrestore"} => In(cmds[i].tag, bk_vgs)

\* The group is excluded: by name, or by the disk of one of its PVs.
BkExcluded(vg) ==
    \/ In(vg, bk_exclude_vgs)
    \/ \E j \in 1..Len(facts_pvs) :
        /\ facts_pvs[j].vg_name = vg
        /\ IF Truthy(facts_pvs[j].parent) THEN In(facts_pvs[j].parent, bk_exclude_disks)
           ELSE In(facts_pvs[j].pv_name, bk_exclude_disks)

\* The disks of a physical volume: those of the members of its array, the
\* volume itself, or the disk of its partition.
PvDisks(pv) ==
    IF pv.md_dev # 0 THEN {BkMdDisks[i] : i \in 1..Len(BkMdDisks)}
    ELSE IF pv.d_type = "part" THEN {pv.parent} ELSE {pv.pv_name}

\* The disks that back a mount: the disk with the filesystem, the parent of
\* the partition, the disks of the members of the array, or the disks of
\* the physical volumes of the group when the group is in the list.
BackingDisks(info) ==
    CASE info.type = "disk" -> {info.path}
      [] info.type = "part" -> {info.parent}
      [] info.type = "raid" -> {BkMdDisks[i] : i \in 1..Len(BkMdDisks)}
      [] info.type = "lvm" ->
            IF In(info.vg, get_bk_vgs)
            THEN UNION {PvDisks(facts_pvs[j]) :
                            j \in {k \in 1..Len(facts_pvs) : facts_pvs[k].vg_name = info.vg}}
            ELSE {}

\* C11: after get_bk_vgs and cleanup_disks no disk left in the disks map
\* is listed in bk_exclude_disks.
C11_NoExcludedDisk ==
    bk_pc = "cleaned" => \A i \in 1..Len(bk_facts_disks) : ~In(bk_facts_disks[i], bk_exclude_disks)

\* C12: after cleanup_disks every disk that backs a mount left in mnts, and
\* that is not excluded, is still in the disks map.
C12_NeededDisksKept ==
    bk_pc = "cleaned" =>
        \A m \in 1..Len(facts_mnts) : \A d \in BackingDisks(facts_mnts[m].v) :
            ~In(d, bk_exclude_disks) => In(d, bk_facts_disks)

\* recover.py 724-729: the device the stage-6 loop of Recover.main hands to
\* fmt_fs for a captured mount.
FmtDev(m) ==
    IF m.type \in {"raid", "raid1"} /\ Truthy(m.md_devname) THEN m.md_devname ELSE m.path

\* The device is the disk d or one of its partitions.
OnDisk(dev, d) == dev = d \/ \E n \in 1..2 : dev = PartPath(d, n)

\* C30: after get_bk_vgs and cleanup_disks no mount of a partition whose
\* parent disk is in bk_exclude_disks is left in mnts, the parent disk of
\* every partition mount left is in the disks map, and the stage-6 loop of
\* a restore, which formats the device of every captured mount, formats no
\* device of an excluded disk.
C30_ExcludedNeverFormatted ==
    bk_pc = "cleaned" =>
        \A i \in 1..Len(facts_mnts) :
            LET m == facts_mnts[i].v IN
            /\ m.type = "part" =>
                    /\ ~In(m.parent, bk_exclude_disks)
                    /\ In(m.parent, bk_facts_disks)
            /\ \A d \in 1..Len(bk_exclude_disks) : ~OnDisk(FmtDev(m), bk_exclude_disks[d])

\* C10: the list get_bk_vgs returns has no excluded volume group, and no
\* mount of an excluded volume group is left in mnts.
C10_NoExcludedVg ==
    bk_pc = "returned" =>
        /\ \A i \in 1..Len(get_bk_vgs) : ~BkExcluded(get_bk_vgs[i])
        /\ \A m \in 1..Len(facts_mnts) :
            facts_mnts[m].v.type = "lvm" => ~BkExcluded(facts_mnts[m].v.vg)

\* The stage of the restore an external command belongs to: 1 the
\* partition tables, 2 the arrays, 3 the LUKS containers on partitions, 4
\* the PVs and VGs, 5 the LUKS containers on LVs, 6 the filesystems, 7 the
\* mounts; 0 for vgchange -an, which belongs to none.
StageOf(c) ==
    CASE c.op \in {"clobber", "commit"} -> 1
      [] c.op \in {"mdadm --assemble", "mdadm --re-add", "mdadm --zero-superblock",
                   "mdadm --create"} -> 2
      [] c.op \in {"luksHeaderRestore", "luksOpen"} -> IF c.tag = "part" THEN 3 ELSE 5
      [] c.op \in {"pvremove", "pvcreate", "vgcfgrestore", "vgchange -ay"} -> 4
      [] c.op \in {"mkfs", "mkswap"} -> 6
      [] c.op = "mount" -> 7
      [] OTHER -> 0

\* The staged commands from index i on are in stage order, hi being the
\* stage of the last staged command before them.
RECURSIVE InStageOrder(_, _)
InStageOrder(i, hi) ==
    IF i > Len(cmds) THEN TRUE
    ELSE LET st == StageOf(cmds[i])
         IN  IF st = 0 THEN InStageOrder(i + 1, hi)
             ELSE st >= hi /\ InStageOrder(i + 1, st)

\* C7: in every execution of a full restore the external commands occur
\* in stage order: partition-table commits, arrays, LUKS on partitions, PV
\* and VG restore and activation, LUKS on LVs, mkfs and mkswap, mounts; and
\* every vgchange -ay occurs after every pvcreate.
C7_StageOrder ==
    /\ InStageOrder(1, 0)
    /\ \A j \in 1..Len(cmds) :
        cmds[j].op = "pvcreate" => \A i \in 1..(j - 1) : cmds[i].op # "vgchange -ay"

\* The number of commands of the log with this op.
Issued(op) == Cardinality({i \in 1..Len(cmds) : cmds[i].op = op})

\* C7 witness: a restore reached the end of the mounts after commands of
\* all seven stages, with two partition-table commits, two pvcreate, two
\* vgchange -ay, mkfs and mkswap.
C7_Witness ==
    /\ main_pc = "mounted"
    /\ \A st \in 1..7 : \E i \in 1..Len(cmds) : StageOf(cmds[i]) = st
    /\ Issued("commit") >= 2
    /\ Issued("pvcreate") >= 2
    /\ Issued("vgchange -ay") >= 2
    /\ Issued("mkfs") >= 2
    /\ Issued("mkswap") >= 1

----------------------------------------------------------------------------
\* The specifications: one per part of the program; the variables of the
\* other parts stay at their idle values.

\* ---------------------------------------------------------------------------
\* get_lvm_report: the pass over the pvs rows (lvm.py 57-86).
\* ---------------------------------------------------------------------------

MD127 == Dev \o <<"m", "d", "1", "2", "7">>

\* The pv_name column of the pvs output: a partition, an md array, a
\* partition of a multipath device, a whole disk, and a missing PV.
PvNames == {PartPath(SDA, 2), MD127, PartPath(MPA, 1), SDB, Unknown}

\* The udev properties of the device a pv_name resolves to (dev_from_file),
\* with the device node of its parent block device.
udev_info(pv_name) ==
    CASE pv_name = PartPath(SDA, 2) ->
            [DM_UUID |-> <<>>, MD_LEVEL |-> "", PARTN |-> "2", DEVTYPE |-> "partition",
             MD_DEVNAME |-> <<>>, DM_MPATH |-> <<>>, parent |-> SDA]
      [] pv_name = MD127 ->
            [DM_UUID |-> <<>>, MD_LEVEL |-> "raid1", PARTN |-> "", DEVTYPE |-> "disk",
             MD_DEVNAME |-> <<"0">>, DM_MPATH |-> <<>>, parent |-> None]
      [] pv_name = PartPath(MPA, 1) ->
            [DM_UUID |-> <<"part", "1", "-", "mpath", "-", "3600">>, MD_LEVEL |-> "",
             PARTN |-> "", DEVTYPE |-> "disk", MD_DEVNAME |-> <<>>,
             DM_MPATH |-> <<"m", "p", "a">>, parent |-> None]
      [] OTHER ->
            [DM_UUID |-> <<>>, MD_LEVEL |-> "", PARTN |-> "", DEVTYPE |-> "disk",
             MD_DEVNAME |-> <<>>, DM_MPATH |-> <<>>, parent |-> None]

\* utils.get_dev_type: the device type of a udev record; "None" stands for
\* Python's None.
get_dev_type(u) ==
    IF u.DM_UUID # <<>>
    THEN CASE u.DM_UUID[1] = "LVM" -> "lvm"
           [] u.DM_UUID[1] = "mpath" -> "mpath"
           [] u.DM_UUID[1] = "part" -> IF In("mpath", u.DM_UUID) THEN "part-mpath" ELSE "None"
           [] u.DM_UUID[1] = "CRYPT-LUKS" -> "crypt"
           [] OTHER -> "None"
    ELSE IF u.MD_LEVEL # ""
    THEN IF u.PARTN # "" THEN "part-raid" ELSE "raid"
    ELSE IF u.DEVTYPE = "partition" THEN "part"
    ELSE IF u.DEVTYPE = "disk" THEN "disk"
    ELSE "None"

\* Lines 77-82: the parent recorded for a device of type d_type.
ParentOf(u, d_type) ==
    IF d_type \in {"part", "part-raid"} THEN u.parent
    ELSE IF d_type = "part-mpath" THEN <<"/dev/mapper/">> \o u.DM_MPATH
    ELSE None

\* Lines 69-82: the keys the loop writes for the device of the row x.
Enrichment(x) ==
    LET u == udev_info(x.pv_name)
        d_type == get_dev_type(u)
        md == IF u.MD_DEVNAME # <<>>
              THEN [pv_name |-> <<"/dev/md/">> \o u.MD_DEVNAME, md_dev |-> 1]
              ELSE [md_dev |-> 0]
    IN  md @@ [d_type |-> d_type, parent |-> ParentOf(u, d_type)]

MaxPvs == 3

PvOutputs ==
    UNION {[1..n -> {[pv_name |-> nm, vg_name |-> "vg0"] : nm \in PvNames}] : n \in 1..MaxPvs}

PvInit ==
    /\ pv_out \in PvOutputs
    /\ pv_report = <<>>
    /\ pv_i = 0
    /\ pv_x = 0
    /\ pv_pc = "pvs"

\* Lines 52-60: run pvs; a nonzero return code raises, otherwise the rows
\* are loaded and i starts at 0.
PvRun ==
    /\ pv_pc = "pvs"
    /\ \E rc \in Rcs :
          IF rc # 0
          THEN /\ pv_pc' = "RunCMDError"
               /\ UNCHANGED <<pv_report, pv_i, pv_x>>
          ELSE /\ pv_report' = pv_out
               /\ pv_i' = 0
               /\ pv_x' = 1
               /\ pv_pc' = "loop"
    /\ UNCHANGED pv_out
    /\ UNCHANGED <<layVars, mapVars, cmpVars, lvmVars, cmds, bkVars, mainVars, bmVars, rcVars,
                   ptVars, mdVars, dvVars>>

\* Lines 62-84: one iteration of "for x in report".  The keys are written
\* to report[i], and i moves only for a row that is not "unknown".
\* report[i] of Python is pv_report[pv_i + 1].
PvRow ==
    /\ pv_pc = "loop"
    /\ pv_x <= Len(pv_report)
    /\ LET x == pv_report[pv_x]
       IN  IF ~IsUnknown(x.pv_name)
           THEN /\ pv_report' = [pv_report EXCEPT ![pv_i + 1] = Enrichment(x) @@ @]
                /\ pv_i' = pv_i + 1
           ELSE UNCHANGED <<pv_report, pv_i>>
    /\ pv_x' = pv_x + 1
    /\ UNCHANGED <<pv_out, pv_pc>>
    /\ UNCHANGED <<layVars, mapVars, cmpVars, lvmVars, cmds, bkVars, mainVars, bmVars, rcVars,
                   ptVars, mdVars, dvVars>>

\* Line 86: lvm.update({'PVS': report}).
PvReturn ==
    /\ pv_pc = "loop"
    /\ pv_x > Len(pv_report)
    /\ pv_pc' = "returned"
    /\ UNCHANGED <<pv_out, pv_report, pv_i, pv_x>>
    /\ UNCHANGED <<layVars, mapVars, cmpVars, lvmVars, cmds, bkVars, mainVars, bmVars, rcVars,
                   ptVars, mdVars, dvVars>>

PvNext == PvRun \/ PvRow \/ PvReturn

PvOff ==
    /\ pv_out = <<>>
    /\ pv_report = <<>>
    /\ pv_i = 0
    /\ pv_x = 0
    /\ pv_pc = "off"

\* C27: in the report get_lvm_report returns, every PV row whose pv_name
\* resolves to a device carries the d_type, md_dev and parent of that row's
\* own device, wherever the rows of missing ("unknown") PVs are in the list.
C27_RowAccurate ==
    pv_pc = "returned" =>
        \A k \in 1..Len(pv_out) :
            ~IsUnknown(pv_out[k].pv_name) =>
                /\ {"d_type", "md_dev", "parent"} \subseteq DOMAIN pv_report[k]
                /\ pv_report[k] = Enrichment(pv_out[k]) @@ pv_out[k]

InitLayout == LayInit /\ MapOff /\ CmpOff /\ LvmOff /\ cmds = <<>> /\ BkOff /\ MainOff /\ BmOff /\ RcOff /\ PtOff /\ MdOff /\ DvOff /\ PvOff

SpecLayout == InitLayout /\ [][LayNext]_vars

InitMap == MapInit /\ LayOff /\ CmpOff /\ LvmOff /\ cmds = <<>> /\ BkOff /\ MainOff /\ BmOff /\ RcOff /\ PtOff /\ MdOff /\ DvOff /\ PvOff

SpecMap == InitMap /\ [][MapNext]_vars

InitCmp == CmpInit /\ LayOff /\ LvmOff /\ cmds = <<>> /\ BkOff /\ MainOff /\ BmOff /\ RcOff /\ PtOff /\ MdOff /\ DvOff /\ PvOff

SpecCmp == InitCmp /\ [][CmpNext]_vars

InitLvm == LvmInit /\ LayOff /\ CmpOff /\ BkOff /\ MainOff /\ BmOff /\ RcOff /\ PtOff /\ MdOff /\ DvOff /\ PvOff

SpecLvm == InitLvm /\ [][LvmNext]_vars

InitBk == BkInit /\ LayOff /\ MapOff /\ CmpOff /\ LvmOff /\ cmds = <<>> /\ MainOff /\ BmOff /\ RcOff /\ PtOff /\ MdOff /\ DvOff /\ PvOff

SpecBk == InitBk /\ [][BkNext]_vars

InitMain == MainInit /\ LayOff /\ BkOff /\ BmOff /\ RcOff /\ PtOff /\ MdOff /\ DvOff /\ PvOff

InitBackup ==
    BmInit /\ LayOff /\ MapOff /\ CmpOff /\ LvmOff /\ cmds = <<>> /\ BkOff /\ MainOff /\ RcOff /\ PtOff /\ MdOff /\ DvOff /\ PvOff

SpecBackup == InitBackup /\ [][BmNext]_vars

InitRecover ==
    RcInit /\ LayOff /\ MapOff /\ CmpOff /\ LvmOff /\ cmds = <<>> /\ BkOff /\ MainOff /\ BmOff /\ PtOff /\ MdOff /\ DvOff /\ PvOff

SpecRecover == InitRecover /\ [][RcNext]_vars

InitMount == MountInit /\ LayOff /\ CmpOff /\ LvmOff /\ BkOff /\ BmOff /\ RcOff /\ PtOff /\ MdOff /\ DvOff /\ PvOff

SpecMount == InitMount /\ [][MainMount]_vars

InitParted ==
    PtInit /\ LayOff /\ MapOff /\ CmpOff /\ LvmOff /\ BkOff /\ MainOff /\ BmOff /\ RcOff /\ MdOff /\ DvOff /\ PvOff

SpecParted == InitParted /\ [][PtNext]_vars

InitMd == MdInit /\ LayOff /\ CmpOff /\ LvmOff /\ cmds = <<>> /\ BkOff /\ MainOff /\ BmOff /\ RcOff /\ PtOff /\ DvOff /\ PvOff

SpecMd == InitMd /\ [][MdNext]_vars

InitDeactivate ==
    DvInit /\ LayOff /\ MapOff /\ CmpOff /\ LvmOff /\ cmds = <<>> /\ BkOff /\ MainOff /\ BmOff /\ RcOff /\ PtOff /\ MdOff /\ PvOff

SpecDeactivate == InitDeactivate /\ [][DeactivateVgs]_vars

InitReport ==
    PvInit /\ LayOff /\ MapOff /\ CmpOff /\ LvmOff /\ cmds = <<>> /\ BkOff /\ MainOff /\ BmOff /\ RcOff /\ PtOff /\ MdOff /\ DvOff

SpecReport == InitReport /\ [][PvNext]_vars

SpecMain == InitMain /\ [][CmpNext \/ LvmNext \/ MainNext]_vars

====
